---- MODULE Spec2Model ----
(***************************************************************************)
(* Download correlation and stream-capture engine of src/server.mjs:       *)
(* the capture session (collectChatGptDownloads), the save results         *)
(* (buildSaveResult, mergeSaveResults) and the result reducer              *)
(* (retainLatestImageOnly), as driven by runChatGptPromptFlow.             *)
(*                                                                         *)
(* A file name is the sequence of its dot-separated segments               *)
(* ("x.part1.png" is <<"x", "part1", "png">>, the empty name is <<>>), a   *)
(* path in the output directory is the file name stored there, and the     *)
(* content of a file is the number of the response whose bytes it holds.   *)
(***************************************************************************)
EXTENDS Integers, Sequences, FiniteSets, TLC

\* ------------------------------------------------------------------ bounds
\* Responses delivered to the page during one run whose traffic is not scripted.
MaxResponses == 2
\* Largest value of PW_IMAGE_MAX tried for a generic-file session.
MaxCap == 2
\* Download candidates the fallback prober tries during one run.
MaxProbes == 2

\* Download controls the click prober tries, and pages their clicks open.
MaxControls == 2

MaxPopups == 2

\* Longest remote file name classified, in dot-separated segments.
MaxSegments == 3

\* Most saves of one session on the shared output directory.
MaxSharedSaves == 2

\* Most saves the attempts of one flow merge into its result.
MaxFlowSaves == 2

\* Most stream events one run emits, and most activity writes it issues.
MaxEmitted == 2
MaxWrites == 3

\* Number.MAX_SAFE_INTEGER (2^53 - 1) is beyond TLC's integers; the media cap
\* is the largest integer TLC has, which no savedCount of a bounded run reaches.
MaxSafeInteger == 2147483647

\* ------------------------------------------------------------------ values
NoId == "none"
Ids == {"a", "b"}

NoName == <<>>
NmPart1 == <<"x", "part1", "png">>
NmPart2 == <<"x", "part2", "png">>
NmFinal == <<"x", "png">>
NmRef == <<"ref", "png">>
NmDoc == <<"doc", "png">>

ChatHost == "chatgpt.com"
NoUrl == [host |-> "none", path |-> "none", pathId |-> NoId, queryId |-> NoId]
DownloadUrl(id) == [host |-> ChatHost, path |-> "download", pathId |-> id, queryId |-> NoId]
EstuaryUrl(q) == [host |-> ChatHost, path |-> "estuary", pathId |-> NoId, queryId |-> q]
CdnUrl(q) == [host |-> "files.oaiusercontent.com", path |-> "other", pathId |-> NoId, queryId |-> q]
PageUrl == [host |-> ChatHost, path |-> "other", pathId |-> NoId, queryId |-> NoId]
OtherHostUrl == [host |-> "files.oaiusercontent.com", path |-> "download", pathId |-> "a", queryId |-> NoId]

\* The JSON body of a metadata response: download_url (NoUrl when absent),
\* file_name (NoName when null), file_size_bytes (0 when null), item.
NoBody == [download_url |-> NoUrl, file_name |-> NoName, file_size_bytes |-> 0, item |-> NoId]
FileInfo(dl, name, size) == [download_url |-> dl, file_name |-> name, file_size_bytes |-> size, item |-> NoId]

\* A response observed on the page: its URL, whether its content type is
\* application/json, its decoded body and its content-disposition file name.
MetaResponse(id, dl, name, size) ==
    [url |-> DownloadUrl(id), json |-> TRUE, body |-> FileInfo(dl, name, size), disposition |-> NoName]
BinaryResponse(url, name) ==
    [url |-> url, json |-> FALSE, body |-> NoBody, disposition |-> name]
EstuaryResponse(q, item) ==
    [url |-> EstuaryUrl(q), json |-> TRUE, body |-> [NoBody EXCEPT !.item = item], disposition |-> NoName]

\* ------------------------------------------------------- frame classifier
\* extractFileId: the id query parameter, else the last path segment of a
\* files/download URL, else null.
extractFileId(url) ==
    IF url.queryId # NoId THEN url.queryId
    ELSE IF url.path = "download" THEN url.pathId
    ELSE NoId

\* A segment that reads part<N> (case-insensitive), and its number N.
PartIndexOf(seg) ==
    CASE seg = "part1" -> 1
      [] seg = "part2" -> 2
      [] seg = "PART1" -> 1
      [] OTHER -> 0

IsPartSegment(seg) == PartIndexOf(seg) > 0

\* The positions at which /\.part(\d+)(?=\.[^.]+$|$)/i matches: a part<N>
\* segment that follows a dot and is the last segment or the last but one.
PartMatches(name) ==
    {i \in 2..Len(name) : IsPartSegment(name[i]) /\ (i = Len(name) \/ (i = Len(name) - 1 /\ name[Len(name)] # ""))}

MinOf(S) == CHOOSE x \in S : \A y \in S : x <= y

isLikelyImageStreamPartName(name) == name # NoName /\ PartMatches(name) # {}

\* A classifier that takes an absent name for a final frame.
parseImageStreamFrameInfoAbsentIsFinal(name) ==
    IF PartMatches(name) = {}
    THEN [fileName |-> name, isPart |-> FALSE, partIndex |-> 0, isFinal |-> TRUE]
    ELSE [fileName |-> name, isPart |-> TRUE,
          partIndex |-> PartIndexOf(name[MinOf(PartMatches(name))]), isFinal |-> FALSE]

parseImageStreamFrameInfo(name) ==
    IF name = NoName
    THEN [fileName |-> NoName, isPart |-> FALSE, partIndex |-> 0, isFinal |-> FALSE]
    ELSE IF PartMatches(name) = {}
    THEN [fileName |-> name, isPart |-> FALSE, partIndex |-> 0, isFinal |-> TRUE]
    ELSE [fileName |-> name, isPart |-> TRUE,
          partIndex |-> PartIndexOf(name[MinOf(PartMatches(name))]), isFinal |-> FALSE]

\* toLowerCase of one segment.
LowerSegment(seg) ==
    CASE seg = "REF" -> "ref"
      [] seg = "PART1" -> "part1"
      [] seg = "PNG" -> "png"
      [] OTHER -> seg

normalizeMatchFileName(name) == [i \in 1..Len(name) |-> LowerSegment(name[i])]

\* A check that takes a nameless response for an echo only when it has a size.
isLikelyUploadEchoMetadataSizeOnly(fileInfo) ==
    LET hasFileName == fileInfo.file_name # NoName
        hasFileSize == fileInfo.file_size_bytes > 0
    IN  ~hasFileName /\ hasFileSize

\* isLikelyUploadEchoMetadata: neither a file name nor a positive size.
isLikelyUploadEchoMetadata(fileInfo) ==
    LET hasFileName == fileInfo.file_name # NoName
        hasFileSize == fileInfo.file_size_bytes > 0
    IN  ~hasFileName /\ ~hasFileSize

\* ------------------------------------------------------------ save results
RECURSIVE Uniq(_)
\* [...new Set(ids.filter(Boolean))]: first occurrences, in order, nulls dropped.
Uniq(ids) ==
    IF ids = <<>> THEN <<>>
    ELSE LET rest == Uniq(SubSeq(ids, 1, Len(ids) - 1))
             last == ids[Len(ids)]
         IN  IF last = NoId \/ \E i \in 1..Len(rest) : rest[i] = last
             THEN rest ELSE Append(rest, last)

\* A save result whose savedCount is the number of its distinct metadata ids.
buildSaveResultCountsIds(count, files, ids, events) ==
    [savedCount |-> Len(Uniq(ids)), savedFiles |-> files, metadataIds |-> Uniq(ids), streamEvents |-> events]

\* buildSaveResult: the count and the files as given, the ids without
\* repetitions and empty ids.
buildSaveResult(count, files, ids, events) ==
    [savedCount |-> count, savedFiles |-> files, metadataIds |-> Uniq(ids), streamEvents |-> events]

EmptyResult == buildSaveResult(0, <<>>, <<>>, <<>>)

\* A merge that counts the batches that brought files, not their files.
mergeSaveResultsCountsBatches(base, extra) ==
    buildSaveResult(base.savedCount + (IF extra.savedFiles # <<>> THEN 1 ELSE 0),
                    base.savedFiles \o extra.savedFiles,
                    base.metadataIds \o extra.metadataIds,
                    base.streamEvents \o extra.streamEvents)

\* mergeSaveResults; every caller passes a result, so extra is never null.
mergeSaveResults(base, extra) ==
    buildSaveResult(base.savedCount + extra.savedCount,
                    base.savedFiles \o extra.savedFiles,
                    base.metadataIds \o extra.metadataIds,
                    base.streamEvents \o extra.streamEvents)

\* Nothing merged yet.
NoMerge == [a |-> EmptyResult, b |-> EmptyResult, c |-> EmptyResult,
            left |-> EmptyResult, right |-> EmptyResult, done |-> FALSE]

\* No grace window computed yet.
NoTiming == [idleMs |-> 0, afterBeacon |-> 0, afterFinal |-> 0, done |-> FALSE]

\* The listeners of a click: context response, context request, native download.
Listeners == {"response", "request", "download"}

\* The click prober before its first control.
NoClick ==
    [pc |-> "off", control |-> 0, heard |-> [l \in Listeners |-> "pending"],
     order |-> <<>>, used |-> <<>>, clicked |-> FALSE]

\* No session on the output directory.
NoShared ==
    [files |-> <<>>, written |-> 0,
     sessions |-> [n \in {1, 2} |-> [pc |-> "off", mode |-> "file", randomize |-> FALSE,
                                     nextFileIndex |-> 1, saved |-> <<>>]]]

\* No attempt of the flow yet.
NoFlowRun ==
    [pc |-> "off", generationMode |-> "image", submissions |-> 0, savedCount |-> 0,
     errorSeen |-> FALSE, activities |-> <<>>,
     first |-> [ended |-> FALSE, savedCount |-> 0, errorSeen |-> FALSE], status |-> "none"]

\* No run behind POST /open.
NoContext ==
    [flow |-> "off", heartbeat |-> FALSE, recent |-> FALSE, emitted |-> <<>>,
     contextRecord |-> [status |-> "queued", streamEvents |-> <<>>],
     file |-> [status |-> "queued", streamEvents |-> <<>>],
     writes |-> {}, issued |-> 0]

\* No remote file name classified.
NoClassified ==
    [name |-> <<>>, done |-> FALSE,
     info |-> [fileName |-> <<>>, isPart |-> FALSE, partIndex |-> 0, isFinal |-> FALSE]]

\* No byte fetch under way.
NoFetch ==
    [pc |-> "off", preferCurl |-> FALSE, attempt |-> 0, requests |-> 0, waits |-> <<>>,
     rejected |-> <<>>, via |-> "none", got |-> [status |-> "none", json |-> FALSE]]

\* No page opened yet.
NoPages == [p \in 1..MaxPopups |-> [state |-> "none", by |-> 0]]

\* ------------------------------------------------------------------- state
VARIABLES
    opts,            \* the run's options: generationMode, streamMode, uploadFiles, imageMax
    imageRun,        \* createImageRun: generationMode, randomizeFileNames, nextFileIndex, filePrefix
    disk,            \* the output directory: path -> content
    clock,           \* the last value Date.now() returned
    arrived,         \* responses delivered to the page so far
    script,          \* the responses the page delivers, in order; <<>> when any may come
    runPc,           \* position of runChatGptPromptFlow
    result,          \* runChatGptPromptFlow's result
    savedCountBefore, \* submitPromptAndCollect's savedCountBefore
    sessPc,          \* position of collectChatGptDownloads: none, poll, drain, copy, returned, rejected
    sess,            \* the options the session was called with
    sessResult,      \* what the session returned
    savedCount, idleTimer, timeoutTimer, finished, listening, seen, metadataIds,
    savedFiles, streamEvents, queue, cur,
    sawImageStreamPartFrame, sawImageFinalFrame, convoStreamCompleted,
    beaconWait,      \* the session's waitForRequest for the completion beacon is pending
    probes,          \* candidates the fallback prober has tried
    probe,           \* the prober's save in flight
    merged,          \* three save results and their two groupings under mergeSaveResults
    timing,          \* a configured idleMs and the grace windows computed from it
    click,           \* collectAssistantDownloadsByClick: its position, control and listeners
    pages,           \* the pages opened by clicks: none, opening, tracked or closed
    fetching,        \* fetchDownloadWithRetry: its position, attempts, waits and outcome
    classified,      \* parseImageStreamFrameInfo applied to one remote file name
    context,         \* runOpenPromptRequest: the context record, its file and the writes in flight
    flowRun,         \* runChatGptPromptFlow's attempts: submissions, saves, the assistant error seen
    shared           \* the output directory under two sessions: its files and who wrote them

\* The variables the run does not touch.
sideVars == <<merged, timing, click, pages, fetching, classified, context, flowRun, shared>>

sessionVars ==
    <<savedCount, idleTimer, timeoutTimer, finished, listening, seen, metadataIds,
      savedFiles, streamEvents, queue, cur,
      sawImageStreamPartFrame, sawImageFinalFrame, convoStreamCompleted, beaconWait>>

vars ==
    <<opts, script, imageRun, disk, clock, arrived, runPc, result, savedCountBefore, sessPc, sess,
      sessResult, sessionVars, probes, probe, sideVars>>

\* ------------------------------------------------------------------ events
BaseEvent ==
    [type |-> "", source |-> "", reason |-> "", responseUrl |-> NoUrl, metadataId |-> NoId,
     fileName |-> NoName, sourceFileName |-> NoName, outputPath |-> NoName,
     isStreamPart |-> FALSE, streamPartIndex |-> 0, isFinalStreamFrame |-> FALSE,
     savedCount |-> 0]

NoFrame == [fileName |-> NoName, isPart |-> FALSE, partIndex |-> 0, isFinal |-> FALSE]

FileIgnored(source, url, id, name, srcName, reason) ==
    [BaseEvent EXCEPT !.type = "file_ignored", !.source = source, !.responseUrl = url,
                      !.metadataId = id, !.fileName = name, !.sourceFileName = srcName,
                      !.reason = reason]

SaveFailed(source, url, id) ==
    [BaseEvent EXCEPT !.type = "save_failed", !.source = source, !.responseUrl = url,
                      !.metadataId = id]

UrlResolved(source, url, id, frame) ==
    [BaseEvent EXCEPT !.type = "download_url_resolved", !.source = source, !.responseUrl = url,
                      !.metadataId = id, !.sourceFileName = frame.fileName,
                      !.isStreamPart = frame.isPart, !.streamPartIndex = frame.partIndex,
                      !.isFinalStreamFrame = frame.isFinal]

MetadataMissing(type, source, url, id) ==
    [BaseEvent EXCEPT !.type = type, !.source = source, !.responseUrl = url, !.metadataId = id]

FileSaved(source, url, entry) ==
    [BaseEvent EXCEPT !.type = "file_saved", !.source = source, !.responseUrl = url,
                      !.metadataId = entry.metadataId, !.fileName = entry.fileName,
                      !.sourceFileName = entry.sourceFileName, !.outputPath = entry.filePath,
                      !.isStreamPart = entry.isStreamPart,
                      !.streamPartIndex = entry.streamPartIndex,
                      !.isFinalStreamFrame = entry.isFinalStreamFrame]

ConvoStreamCompleted ==
    [BaseEvent EXCEPT !.type = "convo_stream_completed", !.source = "ces_stream_event"]

CollectorComplete(count) ==
    [BaseEvent EXCEPT !.type = "collector_complete", !.source = "stream_collector",
                      !.savedCount = count]

\* ------------------------------------------------------------ disk and names
\* extname is non-empty for a name of two segments or more.
HasExtension(name) == Len(name) >= 2

\* extensionFromContentType of the one content type the fetches return, image/png.
FetchedExtension == "png"

applyExtension(name, ext) == IF HasExtension(name) THEN name ELSE Append(name, ext)

\* sanitizeFileName of one segment: characters outside [a-zA-Z0-9._-] become _.
SanitizeSegment(seg) == IF seg = "my ref" THEN "my_ref" ELSE seg

sanitizeFileName(name) == [i \in 1..Len(name) |-> SanitizeSegment(name[i])]

\* `${filePrefix}-${id}` and `${filePrefix}-${Date.now()}`
PrefixName(prefix, suffix) == <<prefix \o "-" \o suffix>>

\* nextRandomBaseName: `${filePrefix}-${runId}-${index}`
nextRandomBaseName(run) == <<run.filePrefix \o "-run-" \o ToString(run.nextFileIndex)>>

\* The path saveBufferToDisk writes to.
SavePath(run, fileName) ==
    LET baseName == IF run.randomizeFileNames THEN nextRandomBaseName(run) ELSE fileName
    IN  applyExtension(sanitizeFileName(baseName), FetchedExtension)

RunAfterSave(run) ==
    IF run.randomizeFileNames THEN [run EXCEPT !.nextFileIndex = @ + 1] ELSE run

LatestPath == applyExtension(<<"latest">>, FetchedExtension)

WriteFile(d, path, content) == [p \in DOMAIN d \cup {path} |-> IF p = path THEN content ELSE d[p]]

Unlink(d, paths) == [p \in DOMAIN d \ paths |-> d[p]]

\* ------------------------------------------------------------------ inputs
\* What the page delivers to a media session: part and final frames of one
\* stream, sharing a file id or not, and a metadata response without
\* file_name and file_size_bytes.
MediaResponses ==
    {MetaResponse("a", CdnUrl(NoId), NmPart1, 1),
     MetaResponse("a", CdnUrl(NoId), NmPart2, 1),
     MetaResponse("a", CdnUrl(NoId), NmFinal, 1),
     MetaResponse("b", CdnUrl(NoId), NmFinal, 1),
     MetaResponse("b", CdnUrl(NoId), NoName, 0)}

\* What the page delivers to a generic-file session: metadata responses
\* (redelivered under the same id), a direct binary response, an estuary
\* discovery response without a file id, an upload echo, and traffic that is
\* no download.
FileResponses ==
    {MetaResponse("a", CdnUrl(NoId), NmDoc, 1),
     MetaResponse("b", CdnUrl("a"), NmRef, 1),
     MetaResponse("b", CdnUrl(NoId), NoName, 0),
     BinaryResponse(DownloadUrl("a"), NmRef),
     EstuaryResponse(NoId, "b"),
     BinaryResponse(PageUrl, NoName),
     BinaryResponse(OtherHostUrl, NoName)}

ResponsesFor(mode) == IF mode = "image" THEN MediaResponses ELSE FileResponses

\* The file names a byte fetch reports in its content-disposition header.
FetchNames == {NoName, NmRef}

\* The frames of one media stream as the page delivers them: x.part1.png,
\* x.part2.png, then the final frame x.png under the file id finalId.
StreamFrames(finalId) ==
    <<MetaResponse("a", CdnUrl(NoId), NmPart1, 1),
      MetaResponse("a", CdnUrl(NoId), NmPart2, 1),
      MetaResponse(finalId, CdnUrl(NoId), NmFinal, 1)>>

\* One file id delivered three times: its metadata twice, then its bytes.
Redelivery ==
    <<MetaResponse("a", CdnUrl(NoId), NmDoc, 1),
      MetaResponse("a", CdnUrl(NoId), NmDoc, 1),
      BinaryResponse(DownloadUrl("a"), NmDoc)>>

\* A part frame of a stream, then image bytes served by an estuary URL that
\* carries no id parameter.
PartThenUnidentified ==
    <<MetaResponse("a", CdnUrl(NoId), NmPart1, 1),
      BinaryResponse(EstuaryUrl(NoId), NoName)>>

\* The traffic of a run: any MaxResponses responses of its mode, or a script.
ScriptsFor(mode) ==
    {<<>>} \cup (IF mode = "image" THEN {StreamFrames(id) : id \in Ids} \cup {PartThenUnidentified}
                 ELSE {Redelivery})

\* ----------------------------------------------------------------- session
IdleCur ==
    [pc |-> "idle", branch |-> "", resp |-> BinaryResponse(NoUrl, NoName), idx |-> 0,
     metadataId |-> NoId, frame |-> NoFrame, nameHint |-> NoName, path |-> NoName]

\* ignoredFileNameSet of the session: the normalized, non-empty ignoreFileNames.
IgnoredFileNameSet(names) ==
    {normalizeMatchFileName(names[i]) : i \in 1..Len(names)} \ {NoName}

shouldIgnoreCapturedFile(ignored, fileName, sourceFileName) ==
    /\ ignored # {}
    /\ \/ (normalizeMatchFileName(fileName) # NoName /\ normalizeMatchFileName(fileName) \in ignored)
       \/ (normalizeMatchFileName(sourceFileName) # NoName
           /\ normalizeMatchFileName(sourceFileName) \in ignored)

\* The dedup key of a response: its file id, or its URL when it has none.
DedupeKey(url) ==
    [id |-> extractFileId(url), url |-> IF extractFileId(url) = NoId THEN url ELSE NoUrl]

\* A session that records no dedup key.
seenNeverRecorded(keys, key) == keys

\* seen.add(dedupeKey)
seenAdd(keys, key) == keys \cup {key}

\* An idle check that arms the timer although only part frames were saved.
scheduleIdleCheckIgnoresParts(count, sawPart, sawFinal, completed) ==
    IF count = 0 THEN "none"
    ELSE IF sess.requireFinalImageFrame /\ sawFinal /\ ~completed THEN "none"
    ELSE "idle"

\* An idle check that does not wait for the beacon once a final frame is saved.
scheduleIdleCheckIgnoresBeacon(count, sawPart, sawFinal, completed) ==
    IF count = 0 THEN "none"
    ELSE IF sess.requireFinalImageFrame /\ sawPart /\ ~sawFinal THEN "none"
    ELSE "idle"

\* scheduleIdleCheck: the idle timer after the call.
scheduleIdleCheck(count, sawPart, sawFinal, completed) ==
    IF count = 0 THEN "none"
    ELSE IF sess.requireFinalImageFrame /\ sawPart /\ ~sawFinal THEN "none"
    ELSE IF sess.requireFinalImageFrame /\ sawFinal /\ ~completed THEN "none"
    ELSE "idle"

\* The session's options, as collectDownloads passes them.
maxFilesFor(o) == IF o.generationMode = "image" THEN MaxSafeInteger ELSE o.imageMax

SessionOptions(o) ==
    [maxFiles |-> maxFilesFor(o),
     requireFinalImageFrame |-> (o.generationMode = "image"),
     waitForConvoStreamCompleted |-> (o.generationMode = "image"),
     ignoredFileNameSet |-> IgnoredFileNameSet(o.uploadFiles)]

\* collectChatGptDownloads up to its first await: fresh session state, the
\* response listener attached, the beacon wait and the hard timeout started.
StartSession(nextPc) ==
    /\ runPc' = nextPc
    /\ sessPc' = "poll"
    /\ sess' = SessionOptions(opts)
    /\ savedCount' = 0
    /\ idleTimer' = "none"
    /\ timeoutTimer' = TRUE
    /\ finished' = FALSE
    /\ listening' = TRUE
    /\ seen' = {}
    /\ metadataIds' = <<>>
    /\ savedFiles' = <<>>
    /\ streamEvents' = <<>>
    /\ queue' = <<>>
    /\ cur' = IdleCur
    /\ sawImageStreamPartFrame' = FALSE
    /\ sawImageFinalFrame' = FALSE
    /\ convoStreamCompleted' = ~SessionOptions(opts).waitForConvoStreamCompleted
    /\ beaconWait' = SessionOptions(opts).waitForConvoStreamCompleted

\* The responses the page may deliver next.
Deliverable ==
    IF script = <<>> THEN ResponsesFor(opts.generationMode)
    ELSE IF arrived < Len(script) THEN {script[arrived + 1]} ELSE {}

\* onResponse: a response is enqueued unless the session has finished.
OnResponse ==
    /\ listening
    /\ arrived < (IF script = <<>> THEN MaxResponses ELSE Len(script))
    /\ \E r \in Deliverable :
          /\ arrived' = arrived + 1
          /\ queue' = IF finished THEN queue ELSE Append(queue, [resp |-> r, idx |-> arrived + 1])
    /\ UNCHANGED <<opts, script, sideVars, imageRun, disk, clock, runPc, result, savedCountBefore, sessPc, sess, sessResult,
                   savedCount, idleTimer, timeoutTimer, finished, listening, seen, metadataIds,
                   savedFiles, streamEvents, cur, sawImageStreamPartFrame, sawImageFinalFrame,
                   convoStreamCompleted, beaconWait, probes, probe>>

\* Date.now() at a call: the clock has not moved, or has moved on.
Stamps(needed) == IF needed THEN {clock, clock + 1} ELSE {clock}

\* metadataIds.add(id)
AddId(ids, id) ==
    IF id = NoId \/ \E i \in 1..Len(ids) : ids[i] = id THEN ids ELSE Append(ids, id)

\* finish(): once; clears both timers and detaches the response listener.
Finish ==
    IF finished
    THEN UNCHANGED <<finished, idleTimer, timeoutTimer, listening>>
    ELSE /\ finished' = TRUE
         /\ idleTimer' = "none"
         /\ timeoutTimer' = FALSE
         /\ listening' = FALSE

\* An event that is built and never logged.
emitStreamEventDropped(events, e) == events

\* emitStreamEvent: streamEvents.push(entry)
emitStreamEvent(events, e) == Append(events, e)

\* A scope test that looks at the host alone.
isDownloadShapeHostOnly(url) == url.host = ChatHost

\* hostname is chatgpt.com and the path is an estuary or files/download path.
isDownloadShape(url) == url.host = ChatHost /\ url.path \in {"estuary", "download"}

\* Dedup in no mode.
dedupAppliesNever(mode) == FALSE

\* Dedup in every mode.
dedupAppliesAlways(mode) == TRUE

\* if (!isImageRun) { ... seen ... }: dedup is for runs that are no media run.
dedupApplies(mode) == mode # "image"

\* A consumer that does not wait for the handling of the response before.
ConsumerStartsAnyTime == queue # <<>>

\* The queue's consumer starts on the next response only when the handling of
\* the one before has settled.
ConsumerReady == queue # <<>> /\ cur.pc = "idle"

\* processResponse from its start to its first byte fetch: scope, dedup,
\* classification, the upload-echo checks and the download_url_resolved event.
ProcessStart ==
    /\ ConsumerReady
    /\ LET r == Head(queue).resp
           url == r.url
           isEstuary == url.path = "estuary"
           isDownload == url.path = "download"
           inScope == isDownloadShape(url)
           isImageRun == imageRun.generationMode = "image"
           duplicate == dedupApplies(imageRun.generationMode) /\ DedupeKey(url) \in seen
           fileId == extractFileId(url)
           dl == r.body.download_url
           metaId == IF extractFileId(dl) # NoId THEN extractFileId(dl) ELSE fileId
           frame == parseImageStreamFrameInfo(r.body.file_name)
           started == [IdleCur EXCEPT !.pc = "fetch", !.resp = r, !.idx = Head(queue).idx]
       IN  /\ queue' = Tail(queue)
           /\ seen' = IF inScope /\ dedupApplies(imageRun.generationMode)
                      THEN seenAdd(seen, DedupeKey(url)) ELSE seen
           /\ \E t \in Stamps(inScope /\ ~duplicate /\ ~r.json /\ r.disposition = NoName /\ fileId = NoId) :
                 LET nameHint == IF r.disposition # NoName THEN r.disposition
                                 ELSE IF fileId # NoId THEN PrefixName(imageRun.filePrefix, fileId)
                                 ELSE PrefixName(imageRun.filePrefix, ToString(t))
                 IN
                 /\ clock' = t
                 /\ IF ~inScope \/ duplicate THEN
                        /\ cur' = IdleCur
                        /\ streamEvents' = streamEvents
                    ELSE IF isDownload /\ r.json THEN
                        IF sess.ignoredFileNameSet # {} /\ isLikelyUploadEchoMetadata(r.body) THEN
                            /\ cur' = IdleCur
                            /\ streamEvents' = Append(streamEvents,
                                   FileIgnored("files_download_metadata", url, fileId, NoName, NoName,
                                               "upload_echo_metadata_null_fields"))
                        ELSE IF dl # NoUrl THEN
                            /\ cur' = [started EXCEPT !.branch = "meta", !.metadataId = metaId,
                                                      !.frame = frame]
                            /\ streamEvents' = emitStreamEvent(streamEvents,
                                   UrlResolved("files_download_metadata", url, metaId, frame))
                        ELSE
                            /\ cur' = IdleCur
                            /\ streamEvents' = Append(streamEvents,
                                   MetadataMissing("metadata_missing_download_url",
                                                   "files_download_metadata", url, fileId))
                    ELSE IF ~r.json THEN
                        IF shouldIgnoreCapturedFile(sess.ignoredFileNameSet, nameHint, NoName) THEN
                            /\ cur' = IdleCur
                            /\ streamEvents' = Append(streamEvents,
                                   FileIgnored("download_response", url, fileId, nameHint, NoName,
                                               "matches_upload_reference_name"))
                        ELSE
                            /\ cur' = [started EXCEPT !.branch = "direct", !.metadataId = fileId,
                                                      !.nameHint = nameHint]
                            /\ streamEvents' = streamEvents
                    ELSE IF r.body.item = NoId THEN
                        /\ cur' = IdleCur
                        /\ streamEvents' = Append(streamEvents,
                               MetadataMissing("metadata_missing_item", "estuary_content", url, NoId))
                    ELSE
                        /\ cur' = [started EXCEPT !.branch = "estuary", !.metadataId = r.body.item]
                        /\ streamEvents' = Append(streamEvents,
                               UrlResolved("estuary_content", url, r.body.item, NoFrame))
    /\ UNCHANGED <<opts, script, sideVars, imageRun, disk, arrived, runPc, result, savedCountBefore, sessPc, sess, sessResult,
                   savedCount, idleTimer, timeoutTimer, finished, listening, metadataIds,
                   savedFiles, sawImageStreamPartFrame, sawImageFinalFrame,
                   convoStreamCompleted, beaconWait, probes, probe>>

\* The source of the events of a branch of processResponse.
BranchSource(branch) ==
    CASE branch = "meta" -> "files_download_metadata"
      [] branch = "direct" -> "download_response"
      [] OTHER -> "estuary_content"

\* The save_failed event of a branch; the estuary one carries no metadata id.
BranchFailure(c) ==
    SaveFailed(BranchSource(c.branch), c.resp.url,
               IF c.branch = "estuary" THEN NoId ELSE extractFileId(c.resp.url))

\* A failed fetch or write of a response that ends the session: save_failed
\* is emitted and finish() is called.
HandlingFailedAborts ==
    /\ streamEvents' = Append(streamEvents, BranchFailure(cur))
    /\ cur' = IdleCur
    /\ Finish
    /\ UNCHANGED <<savedCount, savedFiles, metadataIds, sawImageStreamPartFrame,
                   sawImageFinalFrame, disk, imageRun>>

\* A failed fetch or write of a response: save_failed is emitted; the direct
\* binary branch then runs its cap check with nothing added.
HandlingFailed ==
    /\ streamEvents' = Append(streamEvents, BranchFailure(cur))
    /\ cur' = IdleCur
    /\ IF cur.branch = "direct" /\ savedCount >= sess.maxFiles
       THEN Finish
       ELSE UNCHANGED <<finished, idleTimer, timeoutTimer, listening>>
    /\ UNCHANGED <<savedCount, savedFiles, metadataIds, sawImageStreamPartFrame,
                   sawImageFinalFrame, disk, imageRun>>

\* The byte fetch of the response in hand settles (fetchDownloadWithRetry):
\* on success the name is chosen, the uploaded-reference check of
\* handleFileBuffer is made and saveBufferToDisk picks its path.
FetchDone ==
    /\ cur.pc = "fetch"
    /\ \E ok \in BOOLEAN, fetchedName \in FetchNames :
          /\ (~ok => fetchedName = NoName)
          /\ LET metaName == cur.resp.body.file_name
                 shouldUseMetadataFileName ==
                     metaName # NoName
                     /\ ~(imageRun.generationMode = "image" /\ isLikelyImageStreamPartName(metaName))
                 needStamp == ok /\ fetchedName = NoName /\ cur.branch = "meta"
                              /\ ~shouldUseMetadataFileName
             IN  \E t \in Stamps(needStamp) :
                 LET name == CASE cur.branch = "meta" ->
                                    IF shouldUseMetadataFileName THEN metaName
                                    ELSE IF fetchedName # NoName THEN fetchedName
                                    ELSE PrefixName(imageRun.filePrefix, ToString(t))
                               [] cur.branch = "direct" -> cur.nameHint
                               [] OTHER ->
                                    IF fetchedName # NoName THEN fetchedName
                                    ELSE PrefixName(imageRun.filePrefix, cur.metadataId)
                 IN
                 /\ clock' = t
                 /\ IF ~ok THEN HandlingFailed
                    ELSE IF cur.branch # "direct"
                            /\ shouldIgnoreCapturedFile(sess.ignoredFileNameSet, name, cur.frame.fileName)
                    THEN
                        /\ streamEvents' = Append(streamEvents,
                               FileIgnored(BranchSource(cur.branch), cur.resp.url, cur.metadataId,
                                           name, cur.frame.fileName, "matches_upload_reference_name"))
                        /\ cur' = IdleCur
                        /\ UNCHANGED <<savedCount, savedFiles, metadataIds, sawImageStreamPartFrame,
                                       sawImageFinalFrame, disk, imageRun, finished, idleTimer,
                                       timeoutTimer, listening>>
                    ELSE
                        /\ cur' = [cur EXCEPT !.pc = "write", !.nameHint = name,
                                              !.path = SavePath(imageRun, name)]
                        /\ imageRun' = RunAfterSave(imageRun)
                        /\ UNCHANGED <<streamEvents, savedCount, savedFiles, metadataIds,
                                       sawImageStreamPartFrame, sawImageFinalFrame, disk, finished,
                                       idleTimer, timeoutTimer, listening>>
    /\ UNCHANGED <<opts, script, sideVars, arrived, runPc, result, savedCountBefore, sessPc, sess, sessResult, seen, queue,
                   convoStreamCompleted, beaconWait, probes, probe>>

\* The entry saveBufferToDisk returns, with the frame fields handleFileBuffer adds.
SavedEntry(c) ==
    [filePath |-> c.path, fileName |-> c.path, contentType |-> "image/png",
     metadataId |-> c.metadataId, sourceFileName |-> c.frame.fileName,
     isStreamPart |-> c.frame.isPart, streamPartIndex |-> c.frame.partIndex,
     isFinalStreamFrame |-> c.frame.isFinal]

\* writeFile of the response in hand settles. On success the file is on
\* disk and the save is recorded: by the tail of handleFileBuffer (metadata
\* and estuary branches) or by the tail of the direct binary branch.
WriteDone ==
    /\ cur.pc = "write"
    /\ \E ok \in BOOLEAN :
          IF ~ok THEN HandlingFailed
          ELSE
            LET entry == SavedEntry(cur)
                tracksFrames == sess.requireFinalImageFrame /\ imageRun.generationMode = "image"
                sawPart == sawImageStreamPartFrame
                           \/ (tracksFrames /\ cur.branch # "direct" /\ entry.isStreamPart)
                sawFinal == sawImageFinalFrame
                            \/ (tracksFrames /\ cur.branch # "direct" /\ entry.isFinalStreamFrame)
            IN  /\ disk' = WriteFile(disk, cur.path, cur.idx)
                /\ streamEvents' = Append(streamEvents,
                                          FileSaved(BranchSource(cur.branch), cur.resp.url, entry))
                /\ savedFiles' = Append(savedFiles, entry)
                /\ sawImageStreamPartFrame' = sawPart
                /\ sawImageFinalFrame' = sawFinal
                /\ metadataIds' = AddId(metadataIds, cur.metadataId)
                /\ savedCount' = savedCount + 1
                /\ cur' = IdleCur
                /\ imageRun' = imageRun
                /\ IF savedCount + 1 >= sess.maxFiles THEN Finish
                   ELSE /\ UNCHANGED <<finished, timeoutTimer, listening>>
                        /\ idleTimer' =
                              IF cur.branch # "direct" /\ tracksFrames /\ sawFinal
                                 /\ convoStreamCompleted
                              THEN "finalGrace"
                              ELSE scheduleIdleCheck(savedCount + 1, sawPart, sawFinal,
                                                     convoStreamCompleted)
    /\ UNCHANGED <<opts, script, sideVars, clock, arrived, runPc, result, savedCountBefore, sessPc, sess, sessResult, seen, queue,
                   convoStreamCompleted, beaconWait, probes, probe>>

\* The idle (or grace) timer expires: finish().
IdleTimerFires ==
    /\ idleTimer # "none"
    /\ IF finished
       THEN idleTimer' = "none" /\ UNCHANGED <<finished, timeoutTimer, listening>>
       ELSE Finish
    /\ UNCHANGED <<opts, script, sideVars, imageRun, disk, clock, arrived, runPc, result, savedCountBefore, sessPc,
                   sess, sessResult, savedCount, seen, metadataIds, savedFiles, streamEvents, queue, cur,
                   sawImageStreamPartFrame, sawImageFinalFrame, convoStreamCompleted, beaconWait,
                   probes, probe>>

\* The hard timeout expires: finish().
HardTimeoutFires ==
    /\ timeoutTimer
    /\ Finish
    /\ UNCHANGED <<opts, script, sideVars, imageRun, disk, clock, arrived, runPc, result, savedCountBefore, sessPc,
                   sess, sessResult, savedCount, seen, metadataIds, savedFiles, streamEvents, queue, cur,
                   sawImageStreamPartFrame, sawImageFinalFrame, convoStreamCompleted, beaconWait,
                   probes, probe>>

\* A beacon that arms the grace timer whether or not a file was saved.
graceAfterBeaconAnyCount(count, timer, sawPart, sawFinal) ==
    IF sess.requireFinalImageFrame /\ sawPart /\ ~sawFinal THEN timer
    ELSE "beaconGrace"

\* The idle timer after markConvoStreamCompleted has emitted its event: left
\* as it is without a save or with part frames and no final frame, else
\* replaced by the grace timer.
graceAfterBeacon(count, timer, sawPart, sawFinal) ==
    IF count = 0 THEN timer
    ELSE IF sess.requireFinalImageFrame /\ sawPart /\ ~sawFinal THEN timer
    ELSE "beaconGrace"

\* The page posts the stream-completed beacon the session waits for:
\* markConvoStreamCompleted.
BeaconSeen ==
    /\ beaconWait
    /\ beaconWait' = FALSE
    /\ IF convoStreamCompleted
       THEN UNCHANGED <<convoStreamCompleted, streamEvents, idleTimer>>
       ELSE /\ convoStreamCompleted' = TRUE
            /\ streamEvents' = Append(streamEvents, ConvoStreamCompleted)
            /\ idleTimer' = graceAfterBeacon(savedCount, idleTimer, sawImageStreamPartFrame,
                                              sawImageFinalFrame)
    /\ UNCHANGED <<opts, script, sideVars, imageRun, disk, clock, arrived, runPc, result, savedCountBefore, sessPc,
                   sess, sessResult, savedCount, timeoutTimer, finished, listening, seen, metadataIds,
                   savedFiles, queue, cur, sawImageStreamPartFrame, sawImageFinalFrame,
                   probes, probe>>

\* checkFinished sees finished and resolves; the session goes on to await the queue.
SeesFinished ==
    /\ sessPc = "poll"
    /\ finished
    /\ sessPc' = "drain"
    /\ UNCHANGED <<opts, script, sideVars, imageRun, disk, clock, arrived, runPc, result, savedCountBefore, sess,
                   sessResult, sessionVars, probes, probe>>

\* A session that does not await its queue.
ReturnsWithoutDraining == TRUE

\* `await queue` resolves: every enqueued response has been handled.
QueueDrained == queue = <<>> /\ cur.pc = "idle"

\* A run that sends every stream session on to the prober.
AfterSessionAlwaysProbes(total) ==
    IF runPc = "stream" THEN "probe" ELSE "collected"

\* Where submitPromptAndCollect goes after a session that returned res.
AfterSession(total) ==
    IF runPc = "stream"
    THEN IF opts.generationMode = "image"
         THEN IF total > savedCountBefore /\ Len(opts.uploadFiles) = 0
              THEN "collected" ELSE "collect_pending"
         ELSE "probe"
    ELSE "collected"

\* A tail that emits collector_complete twice.
ReturnResultTwoEvents ==
    LET events == streamEvents \o <<CollectorComplete(savedCount), CollectorComplete(savedCount)>>
        res == buildSaveResult(savedCount, savedFiles, metadataIds, events)
    IN  /\ streamEvents' = events
        /\ sessResult' = res
        /\ result' = mergeSaveResults(result, res)
        /\ sessPc' = "returned"
        /\ runPc' = AfterSession(result.savedCount + res.savedCount)

\* The tail of collectChatGptDownloads: collector_complete is emitted and the
\* result is returned to mergeResult.
ReturnResult ==
    LET events == Append(streamEvents, CollectorComplete(savedCount))
        res == buildSaveResult(savedCount, savedFiles, metadataIds, events)
    IN  /\ streamEvents' = events
        /\ sessResult' = res
        /\ result' = mergeSaveResults(result, res)
        /\ sessPc' = "returned"
        /\ runPc' = AfterSession(result.savedCount + res.savedCount)

\* The queue has drained after finish: the session copies its latest save to
\* latest.<ext> when there is one, else returns at once.
Drained ==
    /\ sessPc = "drain"
    /\ QueueDrained
    /\ IF savedFiles # <<>> /\ savedFiles[Len(savedFiles)].filePath # LatestPath
       THEN /\ sessPc' = "copy"
            /\ UNCHANGED <<streamEvents, sessResult, result, runPc>>
       ELSE ReturnResult
    /\ UNCHANGED <<opts, script, sideVars, imageRun, disk, clock, arrived, savedCountBefore, sess,
                   savedCount, idleTimer, timeoutTimer, finished, listening, seen, metadataIds,
                   savedFiles, queue, cur, sawImageStreamPartFrame, sawImageFinalFrame,
                   convoStreamCompleted, beaconWait, probes, probe>>

\* copyFile(latestSaved.filePath, latestPath) settles; a failure is not
\* caught and rejects the session, which runChatGptPromptFlow reports as an error.
CopyDone ==
    /\ sessPc = "copy"
    /\ \E ok \in BOOLEAN :
          IF ok /\ savedFiles[Len(savedFiles)].filePath \in DOMAIN disk
          THEN /\ disk' = WriteFile(disk, LatestPath, disk[savedFiles[Len(savedFiles)].filePath])
               /\ ReturnResult
          ELSE /\ sessPc' = "rejected"
               /\ runPc' = "error"
               /\ UNCHANGED <<disk, streamEvents, sessResult, result>>
    /\ UNCHANGED <<opts, script, sideVars, imageRun, clock, arrived, savedCountBefore, sess,
                   savedCount, idleTimer, timeoutTimer, finished, listening, seen, metadataIds,
                   savedFiles, queue, cur, sawImageStreamPartFrame, sawImageFinalFrame,
                   convoStreamCompleted, beaconWait, probes, probe>>

\* ----------------------------------------------------------------- reducer
RECURSIVE Filter(_, _)
\* The entries of seq at the positions in keep, in order.
Filter(seq, keep) ==
    IF seq = <<>> THEN <<>>
    ELSE LET front == Filter(SubSeq(seq, 1, Len(seq) - 1), keep)
         IN  IF Len(seq) \in keep THEN Append(front, seq[Len(seq)]) ELSE front

Reverse(seq) == [i \in 1..Len(seq) |-> seq[Len(seq) + 1 - i]]

\* The download_url_resolved events that carry a metadata id.
ResolvedEvents(events) ==
    Filter(events, {i \in 1..Len(events) :
                       events[i].type = "download_url_resolved" /\ events[i].metadataId # NoId})

EventIsFinal(e) ==
    e.isFinalStreamFrame
    \/ (e.sourceFileName # NoName /\ ~isLikelyImageStreamPartName(e.sourceFileName))

EventIsPart(e) ==
    e.isStreamPart
    \/ (e.sourceFileName # NoName /\ isLikelyImageStreamPartName(e.sourceFileName))

\* finalFrameMetadataIds
FinalFrameMetadataIds(resolved) ==
    LET kept == Filter(resolved, {i \in 1..Len(resolved) : EventIsFinal(resolved[i])})
    IN  [i \in 1..Len(kept) |-> kept[i].metadataId]

\* preferredFinalFrameMetadataIds: the final frames resolved once a part frame had been.
PreferredFinalFrameMetadataIds(resolved) ==
    LET kept == Filter(resolved,
                       {i \in 1..Len(resolved) :
                           EventIsFinal(resolved[i]) /\ \E j \in 1..i : EventIsPart(resolved[j])})
    IN  [i \in 1..Len(kept) |-> kept[i].metadataId]

\* frameInfoByMetadataId.get(id): the last resolved event of the id, if any.
FrameInfoOf(resolved, id) ==
    LET at == {i \in 1..Len(resolved) : resolved[i].metadataId = id}
    IN  IF id = NoId \/ at = {}
        THEN [known |-> FALSE, sourceFileName |-> NoName, isFinalStreamFrame |-> FALSE,
              isStreamPart |-> FALSE, streamPartIndex |-> 0]
        ELSE LET e == resolved[CHOOSE i \in at : \A j \in at : j <= i]
             IN  [known |-> TRUE, sourceFileName |-> e.sourceFileName,
                  isFinalStreamFrame |-> EventIsFinal(e), isStreamPart |-> EventIsPart(e),
                  streamPartIndex |-> e.streamPartIndex]

\* pushCandidate: a saved file with its frame fields filled in from its own
\* fields, its source file name and the frame info of its metadata id.
Candidate(resolved, filePath, fileName, sourceFileName, metadataId, isPart, partIndex, isFinal) ==
    LET info == FrameInfoOf(resolved, metadataId)
        src == IF sourceFileName # NoName THEN sourceFileName ELSE info.sourceFileName
    IN  [filePath |-> filePath,
         fileName |-> IF fileName # NoName THEN fileName ELSE filePath,
         sourceFileName |-> src,
         metadataId |-> metadataId,
         isStreamPart |-> isPart \/ (src # NoName /\ isLikelyImageStreamPartName(src))
                          \/ info.isStreamPart,
         streamPartIndex |-> IF partIndex # 0 THEN partIndex ELSE info.streamPartIndex,
         isFinalStreamFrame |-> isFinal \/ (src # NoName /\ ~isLikelyImageStreamPartName(src))
                                \/ info.isFinalStreamFrame]

\* orderedCandidates: the file_saved events, then the savedFiles entries.
OrderedCandidates(saveResult) ==
    LET resolved == ResolvedEvents(saveResult.streamEvents)
        events == saveResult.streamEvents
        saved == Filter(events, {i \in 1..Len(events) :
                                    events[i].type = "file_saved" /\ events[i].outputPath # NoName})
        files == saveResult.savedFiles
    IN  [i \in 1..Len(saved) |->
            Candidate(resolved, saved[i].outputPath, saved[i].fileName, saved[i].sourceFileName,
                      saved[i].metadataId, saved[i].isStreamPart, saved[i].streamPartIndex,
                      saved[i].isFinalStreamFrame)]
        \o
        [i \in 1..Len(files) |->
            Candidate(resolved, files[i].filePath, files[i].fileName, files[i].sourceFileName,
                      files[i].metadataId, files[i].isStreamPart, files[i].streamPartIndex,
                      files[i].isFinalStreamFrame)]

\* The candidates still on disk, one per path, oldest first.
ExistingCandidatesOldestFirst(ordered, d) ==
    Filter(ordered, {i \in 1..Len(ordered) :
                        ordered[i].filePath \in DOMAIN d
                        /\ \A j \in 1..(i - 1) : ordered[j].filePath # ordered[i].filePath})

\* existingCandidates: latest first, one per path, only files still on disk.
ExistingCandidates(ordered, d) ==
    LET rev == Reverse(ordered)
    IN  Filter(rev, {i \in 1..Len(rev) :
                       rev[i].filePath \in DOMAIN d
                       /\ \A j \in 1..(i - 1) : rev[j].filePath # rev[i].filePath})

\* The first entry of seq that satisfies Test, as a sequence of at most one.
FirstWith(seq, Test(_)) ==
    LET at == {i \in 1..Len(seq) : Test(seq[i])}
    IN  IF at = {} THEN <<>> ELSE <<seq[MinOf(at)]>>

\* The candidate of the latest id in ids that has an existing candidate.
LatestById(ids, existing) ==
    LET has(id) == \E i \in 1..Len(existing) : existing[i].metadataId = id
        at == {i \in 1..Len(ids) : has(ids[i])}
    IN  IF at = {} THEN <<>>
        ELSE LET id == ids[CHOOSE i \in at : \A j \in at : j <= i]
                 matches(c) == c.metadataId = id
             IN  FirstWith(existing, matches)

\* The candidate retainLatestImageOnly selects, as a sequence of at most one.
SelectedCandidate(saveResult, d) ==
    LET resolved == ResolvedEvents(saveResult.streamEvents)
        ordered == OrderedCandidates(saveResult)
        existing == ExistingCandidates(ordered, d)
        preferred == LatestById(PreferredFinalFrameMetadataIds(resolved), existing)
        final == LatestById(FinalFrameMetadataIds(resolved), existing)
        isFinal(c) == c.isFinalStreamFrame
                      \/ (c.sourceFileName # NoName /\ ~isLikelyImageStreamPartName(c.sourceFileName))
        anyFinal == FirstWith(existing, isFinal)
    IN  IF preferred # <<>> THEN preferred
        ELSE IF final # <<>> THEN final
        ELSE IF anyFinal # <<>> THEN anyFinal
        ELSE IF existing # <<>> THEN <<existing[1]>>
        ELSE IF ordered # <<>> THEN <<ordered[Len(ordered)]>>
        ELSE <<>>

\* The files retainLatestImageOnly unlinks: every candidate's but the selected one's.
PathsToDelete(saveResult, d) ==
    LET ordered == OrderedCandidates(saveResult)
        selected == SelectedCandidate(saveResult, d)
    IN  IF selected = <<>> THEN {}
        ELSE {ordered[i].filePath : i \in 1..Len(ordered)} \ {selected[1].filePath}

\* A reducer whose result carries the last metadata id the run recorded.
retainLatestImageOnlyLastKnownId(saveResult, d) ==
    LET selected == SelectedCandidate(saveResult, d)
    IN  IF selected = <<>> THEN saveResult
        ELSE LET c == selected[1]
                 ids == saveResult.metadataIds
                 latestMetadataId == IF ids # <<>> THEN ids[Len(ids)] ELSE NoId
             IN  buildSaveResult(
                     1,
                     <<[filePath |-> c.filePath, fileName |-> c.fileName,
                        contentType |-> "image/png", metadataId |-> latestMetadataId,
                        sourceFileName |-> c.sourceFileName, isStreamPart |-> c.isStreamPart,
                        streamPartIndex |-> c.streamPartIndex,
                        isFinalStreamFrame |->
                            (c.isFinalStreamFrame
                             \/ (c.sourceFileName # NoName
                                 /\ ~isLikelyImageStreamPartName(c.sourceFileName)))]>>,
                     <<latestMetadataId>>,
                     saveResult.streamEvents)

\* The result retainLatestImageOnly returns.
retainLatestImageOnly(saveResult, d) ==
    LET selected == SelectedCandidate(saveResult, d)
    IN  IF selected = <<>> THEN saveResult
        ELSE LET c == selected[1]
                 ids == saveResult.metadataIds
                 latestMetadataId ==
                     IF c.metadataId # NoId THEN c.metadataId
                     ELSE IF ids # <<>> THEN ids[Len(ids)] ELSE NoId
             IN  buildSaveResult(
                     1,
                     <<[filePath |-> c.filePath, fileName |-> c.fileName,
                        contentType |-> "image/png", metadataId |-> latestMetadataId,
                        sourceFileName |-> c.sourceFileName, isStreamPart |-> c.isStreamPart,
                        streamPartIndex |-> c.streamPartIndex,
                        isFinalStreamFrame |->
                            (c.isFinalStreamFrame
                             \/ (c.sourceFileName # NoName
                                 /\ ~isLikelyImageStreamPartName(c.sourceFileName)))]>>,
                     <<latestMetadataId>>,
                     saveResult.streamEvents)

\* ------------------------------------------------------------ fallback prober
\* What a GET of a download candidate of the latest assistant turn returns.
ProbeCandidates ==
    {MetaResponse("a", CdnUrl(NoId), NmRef, 1),
     MetaResponse("b", NoUrl, NoName, 0),
     BinaryResponse(CdnUrl(NoId), NmRef),
     BinaryResponse(CdnUrl("b"), NoName)}

IdleProbe(res) ==
    [pc |-> "idle", result |-> res, name |-> NoName, path |-> NoName, metadataId |-> NoId]

\* The entry saveBufferToDisk returns.
ProbeEntry(pr) ==
    [filePath |-> pr.path, fileName |-> pr.path, contentType |-> "image/png",
     metadataId |-> pr.metadataId, sourceFileName |-> NoName, isStreamPart |-> FALSE,
     streamPartIndex |-> 0, isFinalStreamFrame |-> FALSE]

\* collectAssistantDownloadsAfterCompletion takes the next candidate URL and
\* saveDownloadFromUrl requests it: a metadata envelope is followed to its
\* download_url, anything else is the artifact itself.
ProbeGet ==
    /\ runPc = "probe"
    /\ probe.pc = "idle"
    /\ probes < MaxProbes
    /\ probes' = probes + 1
    /\ \E c \in ProbeCandidates :
          LET fileId == extractFileId(c.url)
              dl == c.body.download_url
              metaName == c.body.file_name
              needStamp == ~c.json /\ c.disposition = NoName /\ fileId = NoId
          IN  \E t \in Stamps(needStamp) :
              /\ clock' = t
              /\ IF c.json THEN
                    /\ imageRun' = imageRun
                    /\ IF dl = NoUrl THEN probe' = probe
                       ELSE probe' =
                              [probe EXCEPT
                                 !.pc = "fetch",
                                 !.metadataId = IF extractFileId(dl) # NoId
                                                THEN extractFileId(dl) ELSE fileId,
                                 !.name = IF metaName # NoName
                                             /\ ~(imageRun.generationMode = "image"
                                                  /\ isLikelyImageStreamPartName(metaName))
                                          THEN metaName ELSE NoName]
                 ELSE
                    LET name == IF c.disposition # NoName THEN c.disposition
                                ELSE IF fileId # NoId THEN PrefixName(imageRun.filePrefix, fileId)
                                ELSE PrefixName(imageRun.filePrefix, ToString(t))
                    IN  /\ probe' = [probe EXCEPT !.pc = "write", !.metadataId = fileId,
                                                  !.name = name, !.path = SavePath(imageRun, name)]
                        /\ imageRun' = RunAfterSave(imageRun)
    /\ UNCHANGED <<opts, script, sideVars, disk, arrived, runPc, result, savedCountBefore, sessPc, sess, sessResult,
                   sessionVars>>

\* saveDownloadRecord's byte fetch settles; a failure is caught by the prober's loop.
ProbeFetchDone ==
    /\ probe.pc = "fetch"
    /\ \E ok \in BOOLEAN, fetchedName \in FetchNames :
          /\ (~ok => fetchedName = NoName)
          /\ \E t \in Stamps(ok /\ probe.name = NoName /\ fetchedName = NoName) :
                LET name == IF probe.name # NoName THEN probe.name
                            ELSE IF fetchedName # NoName THEN fetchedName
                            ELSE PrefixName(imageRun.filePrefix, ToString(t))
                IN  /\ clock' = t
                    /\ IF ok
                       THEN /\ probe' = [probe EXCEPT !.pc = "write", !.name = name,
                                                      !.path = SavePath(imageRun, name)]
                            /\ imageRun' = RunAfterSave(imageRun)
                       ELSE /\ probe' = IdleProbe(probe.result)
                            /\ imageRun' = imageRun
    /\ UNCHANGED <<opts, script, sideVars, disk, arrived, runPc, result, savedCountBefore, sessPc, sess, sessResult,
                   sessionVars, probes>>

\* saveBufferToDisk's writeFile settles for the prober; the save is merged
\* into the prober's result.
ProbeWriteDone ==
    /\ probe.pc = "write"
    /\ \E ok \in BOOLEAN :
          IF ok
          THEN /\ disk' = WriteFile(disk, probe.path, 100 + probes)
               /\ probe' = IdleProbe(mergeSaveResults(
                                         probe.result,
                                         buildSaveResult(1, <<ProbeEntry(probe)>>,
                                                         <<probe.metadataId>>, <<>>)))
          ELSE /\ disk' = disk
               /\ probe' = IdleProbe(probe.result)
    /\ UNCHANGED <<opts, script, sideVars, imageRun, clock, arrived, runPc, result, savedCountBefore, sessPc, sess,
                   sessResult, sessionVars, probes>>

\* The prober returns (a save was made, or its deadline has passed) and
\* submitPromptAndCollect merges its result; with nothing new saved it falls
\* back to the collector.
ProbeEnd ==
    /\ runPc = "probe"
    /\ probe.pc = "idle"
    /\ result' = mergeSaveResults(result, probe.result)
    /\ runPc' = IF result.savedCount + probe.result.savedCount = savedCountBefore
                THEN "collect_pending" ELSE "collected"
    /\ probe' = IdleProbe(EmptyResult)
    /\ UNCHANGED <<opts, script, sideVars, imageRun, disk, clock, arrived, savedCountBefore, sessPc, sess,
                   sessResult, sessionVars, probes>>

\* ---------------------------------------------------------------- the run
\* createImageRun
createImageRun(o) ==
    [generationMode |-> o.generationMode, randomizeFileNames |-> o.randomizeFileNames,
     nextFileIndex |-> 1, filePrefix |-> IF o.generationMode = "file" THEN "file" ELSE "image"]

RunOption(mode, stream, uploads, max, randomize) ==
    [generationMode |-> mode, streamMode |-> stream, uploadFiles |-> uploads,
     imageMax |-> max, randomizeFileNames |-> randomize]

\* The requests tried: both kinds, with and without stream capture, uploaded
\* references and randomized names, and every cap up to MaxCap.
RunOptions ==
    {RunOption("image", FALSE, <<>>, MaxCap, FALSE),
     RunOption("image", TRUE, <<NmRef>>, MaxCap, FALSE),
     RunOption("image", FALSE, <<NmRef>>, MaxCap, TRUE)}
    \cup {RunOption("file", TRUE, <<>>, max, FALSE) : max \in 1..MaxCap}
    \cup {RunOption("file", FALSE, <<NmRef>>, MaxCap, FALSE)}

\* The state runChatGptPromptFlow starts in, for a request o and a page
\* whose traffic is sc.
InitWith(o, sc) ==
    /\ opts = o
    /\ script = sc
    /\ imageRun = createImageRun(opts)
    /\ disk = [p \in {} |-> 0]
    /\ clock = 0
    /\ arrived = 0
    /\ runPc = "init"
    /\ result = EmptyResult
    /\ savedCountBefore = 0
    /\ sessPc = "none"
    /\ sess = SessionOptions(opts)
    /\ sessResult = EmptyResult
    /\ savedCount = 0
    /\ idleTimer = "none"
    /\ timeoutTimer = FALSE
    /\ finished = FALSE
    /\ listening = FALSE
    /\ seen = {}
    /\ metadataIds = <<>>
    /\ savedFiles = <<>>
    /\ streamEvents = <<>>
    /\ queue = <<>>
    /\ cur = IdleCur
    /\ sawImageStreamPartFrame = FALSE
    /\ sawImageFinalFrame = FALSE
    /\ convoStreamCompleted = FALSE
    /\ beaconWait = FALSE
    /\ probes = 0
    /\ probe = IdleProbe(EmptyResult)

\* submitPromptAndCollect: the prompt is submitted; stream capture starts when
\* it is enabled, else the collector (media) or the prober (generic files).
Submit ==
    /\ runPc = "init"
    /\ savedCountBefore' = result.savedCount
    /\ IF opts.streamMode THEN StartSession("stream")
       ELSE IF opts.generationMode = "image" THEN StartSession("collect")
       ELSE /\ runPc' = "probe"
            /\ UNCHANGED <<sessPc, sess, sessionVars>>
    /\ UNCHANGED <<opts, script, sideVars, imageRun, disk, clock, arrived, result, sessResult, probes, probe>>

\* The collector run that follows stream capture or the prober.
StartCollect ==
    /\ runPc = "collect_pending"
    /\ StartSession("collect")
    /\ UNCHANGED <<opts, script, sideVars, imageRun, disk, clock, arrived, result, savedCountBefore, sessResult,
                   probes, probe>>

\* runChatGptPromptFlow reduces a media result of several files to one file.
\* Each unlink of the reducer is taken to succeed; it ignores one that fails.
Reduce ==
    /\ runPc = "collected"
    /\ opts.generationMode = "image"
    /\ Len(result.savedFiles) > 1
    /\ result' = retainLatestImageOnly(result, disk)
    /\ disk' = Unlink(disk, PathsToDelete(result, disk))
    /\ runPc' = "done"
    /\ UNCHANGED <<opts, script, sideVars, imageRun, clock, arrived, savedCountBefore, sessPc, sess, sessResult,
                   sessionVars, probes, probe>>

\* runChatGptPromptFlow returns a result that needs no reduction.
Complete ==
    /\ runPc = "collected"
    /\ ~(opts.generationMode = "image" /\ Len(result.savedFiles) > 1)
    /\ runPc' = "done"
    /\ UNCHANGED <<opts, script, sideVars, imageRun, disk, clock, arrived, result, savedCountBefore, sessPc, sess,
                   sessResult, sessionVars, probes, probe>>

Init ==
    /\ \E o \in RunOptions : \E sc \in ScriptsFor(o.generationMode) : InitWith(o, sc)
    /\ merged = NoMerge
    /\ timing = NoTiming
    /\ click = NoClick
    /\ pages = NoPages
    /\ fetching = NoFetch
    /\ classified = NoClassified
    /\ context = NoContext
    /\ flowRun = NoFlowRun
    /\ shared = NoShared

Next ==
    \/ Submit
    \/ StartCollect
    \/ OnResponse
    \/ ProcessStart
    \/ FetchDone
    \/ WriteDone
    \/ IdleTimerFires
    \/ HardTimeoutFires
    \/ BeaconSeen
    \/ SeesFinished
    \/ Drained
    \/ CopyDone
    \/ ProbeGet
    \/ ProbeFetchDone
    \/ ProbeWriteDone
    \/ ProbeEnd
    \/ Reduce
    \/ Complete

Spec == Init /\ [][Next]_vars

\* ------------------------------------------------- merging save results
\* Largest savedCount of a save result that is merged.
MaxCount == 2

\* A saved file of a merged save result.
MergedFile ==
    [filePath |-> NmDoc, fileName |-> NmDoc, contentType |-> "image/png", metadataId |-> "a",
     sourceFileName |-> NoName, isStreamPart |-> FALSE, streamPartIndex |-> 0,
     isFinalStreamFrame |-> FALSE]

\* The save results buildSaveResult makes of a count up to MaxCount, no file
\* or one, and the file ids in every order.
SaveResults ==
    {buildSaveResult(n, files, ids, <<>>) :
        n \in 0..MaxCount,
        files \in {<<>>, <<MergedFile>>},
        ids \in {<<>>, <<"a">>, <<"b">>, <<"a", "b">>, <<"b", "a">>}}

InitMerge ==
    /\ InitWith(RunOption("file", FALSE, <<>>, MaxCap, FALSE), <<>>)
    /\ \E a \in SaveResults, b \in SaveResults, c \in SaveResults :
          merged = [NoMerge EXCEPT !.a = a, !.b = b, !.c = c]
    /\ timing = NoTiming
    /\ click = NoClick
    /\ pages = NoPages
    /\ fetching = NoFetch
    /\ classified = NoClassified
    /\ context = NoContext
    /\ flowRun = NoFlowRun
    /\ shared = NoShared

\* mergeResult applied to three results, grouped both ways.
MergeBoth ==
    /\ ~merged.done
    /\ merged' = [merged EXCEPT
                     !.left = mergeSaveResults(mergeSaveResults(merged.a, merged.b), merged.c),
                     !.right = mergeSaveResults(merged.a, mergeSaveResults(merged.b, merged.c)),
                     !.done = TRUE]
    /\ UNCHANGED <<opts, script, imageRun, disk, clock, arrived, runPc, result, savedCountBefore,
                   sessPc, sess, sessResult, sessionVars, probes, probe, timing, click, pages, fetching, classified, context, flowRun, shared>>

NextMerge == MergeBoth

SpecMerge == InitMerge /\ [][NextMerge]_vars

\* ------------------------------------------------------- grace windows
\* Largest configured idle period, in ms: the default of PW_IMAGE_IDLE_MS.
MaxIdleMs == 8000

MaxOf2(a, b) == IF a >= b THEN a ELSE b

MinOf2(a, b) == IF a <= b THEN a ELSE b

\* A grace window that is the configured idle period, capped at 1500 ms.
graceNoFloor(floor, idleMs) == MinOf2(idleMs, 1500)

\* Math.min(Math.max(floor, idleMs), 1_500): the grace window armed on
\* completion, with floor 600 after the beacon and 500 after a final frame.
graceWindow(floor, idleMs) == MinOf2(MaxOf2(floor, idleMs), 1500)

InitTiming ==
    /\ InitWith(RunOption("image", FALSE, <<>>, MaxCap, FALSE), <<>>)
    /\ merged = NoMerge
    /\ \E ms \in 0..MaxIdleMs : timing = [NoTiming EXCEPT !.idleMs = ms]
    /\ click = NoClick
    /\ pages = NoPages
    /\ fetching = NoFetch
    /\ classified = NoClassified
    /\ context = NoContext
    /\ flowRun = NoFlowRun
    /\ shared = NoShared

\* The two grace windows of a session started with timing.idleMs.
ArmGrace ==
    /\ ~timing.done
    /\ timing' = [timing EXCEPT !.afterBeacon = graceWindow(600, timing.idleMs),
                                !.afterFinal = graceWindow(500, timing.idleMs),
                                !.done = TRUE]
    /\ UNCHANGED <<opts, script, imageRun, disk, clock, arrived, runPc, result, savedCountBefore,
                   sessPc, sess, sessResult, sessionVars, probes, probe, merged, click, pages, fetching, classified, context, flowRun, shared>>

NextTiming == ArmGrace

SpecTiming == InitTiming /\ [][NextTiming]_vars

\* ------------------------------------------------------- the click prober
\* The variables the click prober does not touch.
runVars ==
    <<opts, script, imageRun, disk, clock, arrived, runPc, result, savedCountBefore,
      sessPc, sess, sessResult, sessionVars, probes, probe, merged, timing, fetching, classified, context, flowRun, shared>>

InitClick ==
    /\ InitWith(RunOption("file", FALSE, <<>>, MaxCap, FALSE), <<>>)
    /\ merged = NoMerge
    /\ timing = NoTiming
    /\ click = [NoClick EXCEPT !.pc = "next"]
    /\ pages = NoPages
    /\ fetching = NoFetch
    /\ classified = NoClassified
    /\ context = NoContext
    /\ flowRun = NoFlowRun
    /\ shared = NoShared

\* closeRunOwnedPages: every page in runOwnedPages is removed from it and closed.
closeRunOwnedPages(pg) ==
    [p \in 1..MaxPopups |-> IF pg[p].state = "tracked" THEN [pg[p] EXCEPT !.state = "closed"]
                             ELSE pg[p]]

\* A click prober that goes on as soon as one listener has its event.
AnyListenerResolved == \E l \in Listeners : click.heard[l] = "event"

\* Promise.all of the three listeners: each has its event or has timed out.
ListenersSettled == \A l \in Listeners : click.heard[l] # "pending"

\* The next download control: its href is followed first, and a save made
\* that way ends the prober; else the three listeners are installed.
NextControl ==
    /\ click.pc = "next"
    /\ click.control < MaxControls
    /\ \E savedByHref \in BOOLEAN :
          IF savedByHref
          THEN /\ click' = [click EXCEPT !.pc = "returned", !.control = @ + 1, !.clicked = FALSE,
                                         !.order = <<>>, !.used = <<>>]
               /\ pages' = closeRunOwnedPages(pages)
          ELSE /\ click' = [click EXCEPT !.pc = "armed", !.control = @ + 1, !.clicked = FALSE,
                                         !.heard = [l \in Listeners |-> "pending"],
                                         !.order = <<>>, !.used = <<>>]
               /\ pages' = pages
    /\ UNCHANGED runVars

\* control.click, then node.click() if that fails; when both fail the pages
\* are closed and the prober goes to the next control.
ClickControl ==
    /\ click.pc = "armed"
    /\ \E ok \in BOOLEAN :
          IF ok
          THEN click' = [click EXCEPT !.pc = "clicked", !.clicked = TRUE] /\ pages' = pages
          ELSE click' = [click EXCEPT !.pc = "next"] /\ pages' = closeRunOwnedPages(pages)
    /\ UNCHANGED runVars

\* A listener gets its event, or its timeout expires and it resolves to null.
ListenerResolves ==
    /\ click.pc \in {"armed", "clicked"}
    /\ \E l \in Listeners, outcome \in {"event", "timeout"} :
          /\ click.heard[l] = "pending"
          /\ click' = [click EXCEPT !.heard[l] = outcome,
                                    !.order = IF outcome = "event" THEN Append(@, l) ELSE @]
    /\ UNCHANGED <<runVars, pages>>

\* The listeners whose events the prober saves from, in order: the native
\* download first; when that saved nothing, the response, or the request when
\* no response was observed.
UsedListeners(heard, savedFromDownload) ==
    (IF heard["download"] = "event" THEN <<"download">> ELSE <<>>)
    \o (IF heard["download"] = "event" /\ savedFromDownload THEN <<>>
        ELSE IF heard["response"] = "event" THEN <<"response">>
        ELSE IF heard["request"] = "event" THEN <<"request">>
        ELSE <<>>)

\* The three listeners have settled: the prober saves from their events, closes
\* the pages (finally) and returns when a file was saved, else goes on.
Conclude ==
    /\ click.pc = "clicked"
    /\ ListenersSettled
    /\ \E savedFromDownload \in BOOLEAN, savedFromTraffic \in BOOLEAN :
          LET used == UsedListeners(click.heard, savedFromDownload)
              saved == \/ (click.heard["download"] = "event" /\ savedFromDownload)
                       \/ (used # <<>> /\ used[Len(used)] # "download" /\ savedFromTraffic)
          IN  click' = [click EXCEPT !.pc = IF saved THEN "returned" ELSE "next", !.used = used]
    /\ pages' = closeRunOwnedPages(pages)
    /\ UNCHANGED runVars

\* Every control was tried: the pages are closed and the prober returns.
ControlsExhausted ==
    /\ click.pc = "next"
    /\ click.control = MaxControls
    /\ click' = [click EXCEPT !.pc = "returned"]
    /\ pages' = closeRunOwnedPages(pages)
    /\ UNCHANGED runVars

\* The click in hand opens a page: the context's page event reaches
\* onContextPage, which asks the page for its opener.
PopupOpens ==
    /\ click.pc = "clicked"
    /\ \E p \in 1..MaxPopups :
          /\ pages[p].state = "none"
          /\ pages' = [pages EXCEPT ![p] = [state |-> "opening", by |-> click.control]]
    /\ UNCHANGED <<runVars, click>>

\* candidatePage.opener() resolves with the active page: the page is added
\* to runOwnedPages.
OpenerResolved ==
    /\ \E p \in 1..MaxPopups :
          /\ pages[p].state = "opening"
          /\ pages' = [pages EXCEPT ![p].state = "tracked"]
    /\ UNCHANGED <<runVars, click>>

\* The run's finally: the page listener is removed and the pages are closed.
RunEnds ==
    /\ click.pc = "returned"
    /\ click' = [click EXCEPT !.pc = "ended"]
    /\ pages' = closeRunOwnedPages(pages)
    /\ UNCHANGED runVars

NextClick ==
    \/ NextControl
    \/ ClickControl
    \/ ListenerResolves
    \/ Conclude
    \/ ControlsExhausted
    \/ PopupOpens
    \/ OpenerResolved
    \/ RunEnds

SpecClick == InitClick /\ [][NextClick]_vars

\* -------------------------------------------------------------- properties
\* The session in hand is a media session.
IsImageRun == imageRun.generationMode = "image"

\* The events of the given types that a response with the file id left.
EventsOfId(events, id, types) ==
    {i \in 1..Len(events) : events[i].type \in types /\ extractFileId(events[i].responseUrl) = id}

\* The ways the handling of a response ends.
Outcomes ==
    {"file_saved", "save_failed", "file_ignored", "metadata_missing_download_url",
     "metadata_missing_item"}

\* C1 (as amended): in a non-media session a file id is counted at most
\* once, however often it is delivered: its deliveries leave one outcome, that
\* of the first, and savedCount counts the id once only if that is a save.
C1_IdCountedAtMostOnce ==
    ~IsImageRun =>
        \A id \in Ids :
            /\ Cardinality(EventsOfId(streamEvents, id, {"file_saved"})) <= 1
            /\ Cardinality(EventsOfId(streamEvents, id, Outcomes)) <= 1

\* C1, witness: the three deliveries of one file id have all been handled by
\* the first session of the run, and the id is counted once.
C1_Witness ==
    /\ script = Redelivery
    /\ arrived = Len(Redelivery)
    /\ runPc = "probe"
    /\ sessPc = "returned"
    /\ seen = {DedupeKey(DownloadUrl("a"))}
    /\ savedCount = 1
    /\ Cardinality(EventsOfId(streamEvents, "a", {"file_saved"})) = 1

\* C1 as stated: when a non-media session returns, every file id that was
\* delivered to it has been counted exactly once.
C1_IdCountedExactlyOnce ==
    (~IsImageRun /\ sessPc = "returned") =>
        \A id \in Ids :
            DedupeKey(DownloadUrl(id)) \in seen =>
                Cardinality(EventsOfId(streamEvents, id, {"file_saved"})) = 1

\* The file_saved events of the frame with the given remote name.
SavedFrames(events, name) ==
    {i \in 1..Len(events) : events[i].type = "file_saved" /\ events[i].sourceFileName = name}

\* The frames x.part1.png, x.part2.png and x.png were delivered in that order
\* and each was saved.
FramesDeliveredAndSaved ==
    /\ opts.generationMode = "image"
    /\ \E id \in Ids : script = StreamFrames(id)
    /\ \A name \in {NmPart1, NmPart2, NmFinal} : SavedFrames(result.streamEvents, name) # {}

NullNameAndSize(body) == body.file_name = NoName /\ body.file_size_bytes = 0

\* C3 (as amended): in a session that was given at least one uploaded
\* reference name, a files/download metadata response whose file_name and
\* file_size_bytes are both null never reaches the byte fetch or the disk
\* write, so it adds nothing to savedFiles and savedCount.
C3_EchoIgnoredWithUploads ==
    (sess.ignoredFileNameSet # {} /\ cur.pc # "idle" /\ cur.branch = "meta") =>
        ~NullNameAndSize(cur.resp.body)

\* C3, witness: a session with an uploaded reference has ignored such a
\* response and saved nothing.
C3_Witness ==
    /\ sess.ignoredFileNameSet # {}
    /\ savedCount = 0
    /\ savedFiles = <<>>
    /\ \E i \in 1..Len(streamEvents) :
          /\ streamEvents[i].type = "file_ignored"
          /\ streamEvents[i].reason = "upload_echo_metadata_null_fields"

\* C3 as stated: whatever the uploaded-reference list is, the handling of a
\* metadata response whose file_name and file_size_bytes are both null leaves
\* savedFiles and savedCount as they were.
C3_EchoNeverSaved ==
    [][(cur.branch = "meta" /\ NullNameAndSize(cur.resp.body))
          => (savedFiles' = savedFiles /\ savedCount' = savedCount)]_vars

\* C4 as stated: no file is written or counted under the name of a file the
\* caller uploaded as a reference for the run, whichever capture path
\* (metadata, direct binary response, estuary, fallback prober) produced it.
C4_UploadNamesNeverSaved ==
    /\ \A p \in DOMAIN disk :
          normalizeMatchFileName(p) \notin IgnoredFileNameSet(opts.uploadFiles)
    /\ \A i \in 1..Len(result.savedFiles) :
          normalizeMatchFileName(result.savedFiles[i].fileName)
              \notin IgnoredFileNameSet(opts.uploadFiles)

\* No in-scope response has been handled: none was delivered during the run,
\* or the non-media session has recorded no dedup key.
NoInScopeResponse == arrived = 0 \/ (~IsImageRun /\ seen = {})

\* The events are one collector_complete event with savedCount 0.
OnlyCollectorComplete(events) ==
    /\ Len(events) = 1
    /\ events[1].type = "collector_complete"
    /\ events[1].savedCount = 0

\* C5 (as amended): a session that handled no in-scope response returns
\* savedCount 0, no saved files and a streamEvents list that ends with exactly
\* one collector_complete event with savedCount 0; in a media session that
\* saw the completion beacon a convo_stream_completed event precedes it, and
\* nothing else does.
C5_EmptySessionResult ==
    (sessPc = "returned" /\ NoInScopeResponse) =>
        /\ sessResult.savedCount = 0
        /\ sessResult.savedFiles = <<>>
        /\ sessResult.metadataIds = <<>>
        /\ \/ OnlyCollectorComplete(sessResult.streamEvents)
           \/ /\ sess.waitForConvoStreamCompleted
              /\ Len(sessResult.streamEvents) = 2
              /\ sessResult.streamEvents[1].type = "convo_stream_completed"
              /\ OnlyCollectorComplete(Tail(sessResult.streamEvents))

\* C5, witness: a media session to which nothing was delivered has returned
\* after the completion beacon was seen.
C5_Witness ==
    /\ sessPc = "returned"
    /\ arrived = 0
    /\ sess.waitForConvoStreamCompleted
    /\ Len(sessResult.streamEvents) = 2
    /\ sessResult.streamEvents[2].type = "collector_complete"

\* C5 as stated: a session that handled no in-scope response returns
\* savedCount 0, no saved files and exactly one event, collector_complete
\* with savedCount 0.
C5_OnlyCollectorComplete ==
    (sessPc = "returned" /\ NoInScopeResponse) =>
        /\ sessResult.savedCount = 0
        /\ sessResult.savedFiles = <<>>
        /\ OnlyCollectorComplete(sessResult.streamEvents)

\* The members of a sequence.
Range(seq) == {seq[i] : i \in 1..Len(seq)}

\* C6: mergeSaveResults is associative for savedCount and for the union of
\* metadataIds: merge(merge(a, b), c) and merge(a, merge(b, c)) agree on both.
C6_MergeAssociative ==
    merged.done =>
        /\ merged.left.savedCount = merged.right.savedCount
        /\ merged.left.savedCount = merged.a.savedCount + merged.b.savedCount + merged.c.savedCount
        /\ Range(merged.left.metadataIds) = Range(merged.right.metadataIds)
        /\ Range(merged.left.metadataIds)
              = Range(merged.a.metadataIds) \cup Range(merged.b.metadataIds)
                   \cup Range(merged.c.metadataIds)

\* C6, witness: three results with counts, files and overlapping file ids
\* have been merged both ways.
C6_Witness ==
    /\ merged.done
    /\ merged.a.metadataIds = <<"a">>
    /\ merged.b.metadataIds = <<"b", "a">>
    /\ merged.c.metadataIds = <<"a", "b">>
    /\ merged.b.savedFiles # <<>>
    /\ merged.c.savedFiles # <<>>
    /\ merged.left.savedCount = 3 * MaxCount
    /\ merged.left.metadataIds = <<"a", "b">>

\* C7: within a session the handling of a response begins only when no other
\* handling is under way, and it is that of the earliest response not yet
\* handled: every response still queued arrived later.
C7_HandlingSerialized ==
    [][(cur'.pc # "idle" /\ cur'.idx # cur.idx) =>
          /\ cur.pc = "idle"
          /\ queue # <<>>
          /\ cur'.idx = Head(queue).idx
          /\ \A i \in 1..Len(queue') : queue'[i].idx > cur'.idx]_vars

\* C7, witness: response N + 1 waits in the queue while the byte fetch of
\* response N is in flight.
C7_Witness ==
    /\ cur.pc = "fetch"
    /\ queue # <<>>
    /\ Head(queue).idx = cur.idx + 1

\* A step of the capture session or of one of its timers.
SessionStep ==
    \/ ProcessStart
    \/ FetchDone
    \/ WriteDone
    \/ IdleTimerFires
    \/ HardTimeoutFires
    \/ SeesFinished
    \/ Drained
    \/ CopyDone

\* C8 as stated, for finite runs: a session that has started and has not
\* returned its result always has a step to take (the hard timeout, then the
\* drain of the queue, then the return), so it ends only by returning.
C8_SessionReturns ==
    sessPc \notin {"none", "returned"} => ENABLED SessionStep

\* C9: a finished session enqueues no response; when it returns it is
\* finished, its queue is empty and no handling is under way; and once it has
\* returned the only writes to disk are the prober's and the reducer's.
C9_DrainedBeforeReturn ==
    [][/\ finished => Len(queue') <= Len(queue)
       /\ sessPc' = "returned" => (finished' /\ queue' = <<>> /\ cur'.pc = "idle")
       /\ (sessPc = "returned" /\ sessPc' = "returned" /\ disk' # disk)
             => (probe.pc = "write" \/ runPc = "collected")]_vars

\* C9, witness: a session capped at one file has returned two: the second
\* response was enqueued before the finish and handled after it.
C9_Witness ==
    /\ sessPc = "returned"
    /\ sess.maxFiles = 1
    /\ sessResult.savedCount = 2
    /\ queue = <<>>
    /\ cur.pc = "idle"

\* C10: in a generic-file session whose savedCount has reached the cap the
\* session is finished, the listener detached and both timers cleared; in a
\* media session no step that raises savedCount finishes the session.
C10_CapFinishesFileSession ==
    [][/\ (~IsImageRun /\ sessPc' # "none" /\ savedCount' >= sess'.maxFiles)
             => (finished' /\ ~listening' /\ ~timeoutTimer' /\ idleTimer' = "none")
       /\ (IsImageRun /\ savedCount' > savedCount) => finished' = finished]_vars

\* C10, witness: a generic-file session with a cap of two has just saved its
\* second file and is finished before any timer has fired.
C10_Witness ==
    /\ ~IsImageRun
    /\ sessPc = "poll"
    /\ sess.maxFiles = 2
    /\ savedCount = 2
    /\ finished
    /\ ~listening
    /\ ~timeoutTimer
    /\ idleTimer = "none"

\* A part frame, or a final frame, is among the session's saves.
PartFrameSaved == \E i \in 1..Len(savedFiles) : savedFiles[i].isStreamPart

FinalFrameSaved == \E i \in 1..Len(savedFiles) : savedFiles[i].isFinalStreamFrame

\* A step that finishes the session by anything but the hard timeout.
FinishedOtherwise == (IdleTimerFires \/ WriteDone) /\ ~finished /\ finished'

GraceTimers == {"beaconGrace", "finalGrace"}

\* C12: in a media session the step that makes both true, a final frame saved
\* and the beacon seen, arms a grace timer, whichever of the two came first;
\* the expiry of the timer leaves the session finished; and while a final
\* frame is saved and the beacon has not been seen no idle timer is armed.
C12_GraceAfterFinalAndBeacon ==
    [][(IsImageRun /\ sessPc' # "none") =>
          /\ (FinalFrameSaved' /\ convoStreamCompleted'
                 /\ ~(FinalFrameSaved /\ convoStreamCompleted))
                => idleTimer' \in GraceTimers
          /\ IdleTimerFires => finished'
          /\ (FinalFrameSaved' /\ ~convoStreamCompleted') => idleTimer' = "none"]_vars

\* C12, witness: the final frame was saved first, with no timer armed, and the
\* beacon that followed has armed the grace timer of a session not yet
\* finished.
C12_Witness ==
    /\ IsImageRun
    /\ sessPc = "poll"
    /\ FinalFrameSaved
    /\ convoStreamCompleted
    /\ sess.waitForConvoStreamCompleted
    /\ idleTimer = "beaconGrace"
    /\ ~finished

\* C13 as stated: a generic-file session listens for the completion beacon:
\* it was started with waitForConvoStreamCompleted, and until it finishes its
\* wait for the beacon is pending or the beacon has been seen and recorded.
C13_FileSessionListens ==
    (~IsImageRun /\ sessPc = "poll" /\ ~finished) =>
        /\ sess.waitForConvoStreamCompleted
        /\ beaconWait \/ convoStreamCompleted
        /\ ENABLED BeaconSeen
           \/ \E i \in 1..Len(streamEvents) : streamEvents[i].type = "convo_stream_completed"

\* C14 (as amended): each grace window lies between its floor (600 ms after
\* the beacon, 500 ms after a final frame) and 1500 ms; it is never longer
\* than an idle period of at least the floor, shorter than one above 1500 ms,
\* and equal to the floor, so longer than the idle period, below the floor.
C14_GraceWithinFloorAndCap ==
    timing.done =>
        /\ timing.afterBeacon >= 600 /\ timing.afterBeacon <= 1500
        /\ timing.afterFinal >= 500 /\ timing.afterFinal <= 1500
        /\ timing.idleMs >= 600 => timing.afterBeacon <= timing.idleMs
        /\ timing.idleMs >= 500 => timing.afterFinal <= timing.idleMs
        /\ timing.idleMs > 1500 => (timing.afterBeacon < timing.idleMs
                                     /\ timing.afterFinal < timing.idleMs)
        /\ timing.idleMs < 600 => timing.afterBeacon = 600
        /\ timing.idleMs < 500 => timing.afterFinal = 500

\* C14, witness: with an idle period of 550 ms the grace window after the
\* beacon is its floor, 600 ms, and the one after a final frame is 550 ms.
C14_Witness ==
    /\ timing.done
    /\ timing.idleMs = 550
    /\ timing.afterBeacon = 600
    /\ timing.afterFinal = 550

\* C14 as stated: for every configured idle period the grace windows are no
\* longer than the idle period.
C14_GraceNeverLonger ==
    timing.done => (timing.afterBeacon <= timing.idleMs /\ timing.afterFinal <= timing.idleMs)

\* The saves of a run that are its candidates at reduction: the file_saved
\* events whose file is on disk and was not written again by a later save.
LiveCandidates(events, d) ==
    {i \in 1..Len(events) :
        /\ events[i].type = "file_saved"
        /\ events[i].outputPath \in DOMAIN d
        /\ \A j \in (i + 1)..Len(events) :
              events[j].type = "file_saved" => events[j].outputPath # events[i].outputPath}

\* A part frame was observed in the run before the event at position i.
PartFrameBefore(events, i) ==
    \E j \in 1..(i - 1) : events[j].type = "download_url_resolved" /\ events[j].isStreamPart

MaxOf(S) == CHOOSE x \in S : \A y \in S : y <= x

\* The files the selection priority allows the reducer to retain.
PriorityPaths(events, d) ==
    LET live == LiveCandidates(events, d)
        finals == {i \in live : events[i].isFinalStreamFrame}
        preferred == {i \in finals : PartFrameBefore(events, i)}
    IN  IF preferred # {} THEN {events[MaxOf(preferred)].outputPath}
        ELSE IF finals # {} THEN {events[i].outputPath : i \in finals}
        ELSE IF live # {} THEN {events[MaxOf(live)].outputPath}
        ELSE {}

\* The reducer runs: a media run with more than one saved file ends.
Reducing == runPc = "collected" /\ IsImageRun /\ Len(result.savedFiles) > 1 /\ runPc' = "done"

\* C15: the file the reducer retains is that of the latest final frame saved
\* after a part frame was observed; if there is none, that of a saved final
\* frame; if there is none, that of the latest save.
C15_SelectionPriority ==
    [][Reducing => result'.savedFiles[1].filePath \in PriorityPaths(result.streamEvents, disk)]_vars

\* C16 as stated: the reduction of a media run with more than one saved
\* candidate reports savedCount 1 and one saved file, which is on disk, and of
\* what the run wrote nothing else is left: any other file on disk is at most
\* another copy of the retained file.
C16_OnlyRetainedFileLeft ==
    [][Reducing =>
          /\ result'.savedCount = 1
          /\ Len(result'.savedFiles) = 1
          /\ result'.savedFiles[1].filePath \in DOMAIN disk'
          /\ \A p \in DOMAIN disk' : disk'[p] = disk'[result'.savedFiles[1].filePath]]_vars

\* The metadata id of the save that last wrote the file at path.
IdOfSaveAt(events, path) ==
    LET at == {i \in 1..Len(events) : events[i].type = "file_saved" /\ events[i].outputPath = path}
    IN  events[MaxOf(at)].metadataId

\* The metadata id of the last save of the run.
IdOfLastSave(events) ==
    events[MaxOf({i \in 1..Len(events) : events[i].type = "file_saved"})].metadataId

\* C17 (as amended): the file reported after reduction carries the metadata
\* id under which that file was saved, or the last id the run recorded when
\* it was saved without one, and the result's metadataIds hold that id alone.
C17_CarriesRetainedId ==
    [][Reducing =>
          LET file == result'.savedFiles[1]
              own == IdOfSaveAt(result.streamEvents, file.filePath)
          IN  /\ file.metadataId = IF own # NoId THEN own
                                   ELSE result.metadataIds[Len(result.metadataIds)]
              /\ result'.metadataIds = <<file.metadataId>>]_vars

\* C17, witness: a run saved a final frame under one id and then another
\* file under a second id; the reduced result carries the id of the final
\* frame, which it retains, not the id of the last save.
C17_Witness ==
    /\ runPc = "done"
    /\ IsImageRun
    /\ Len(result.savedFiles) = 1
    /\ result.savedFiles[1].isFinalStreamFrame
    /\ result.metadataIds = <<result.savedFiles[1].metadataId>>
    /\ Cardinality(LiveCandidates(result.streamEvents, disk)) = 1
    /\ IdOfLastSave(result.streamEvents) # result.savedFiles[1].metadataId

\* C17 as stated: the file reported after reduction carries the metadata id
\* of the last candidate observed in the run.
C17_CarriesLastObservedId ==
    [][Reducing => result'.savedFiles[1].metadataId = IdOfLastSave(result.streamEvents)]_vars

\* C18 (as amended): the prober runs in generic-file runs only; with stream
\* mode it runs after the stream session has returned, whatever that saved,
\* and without stream mode before any session; the session that follows the
\* prober is started only when the attempt has saved nothing.
C18_ProberOrder ==
    /\ IsImageRun => (runPc # "probe" /\ probes = 0)
    /\ runPc = "probe" => sessPc = (IF opts.streamMode THEN "returned" ELSE "none")
    /\ (~IsImageRun /\ runPc \in {"collect_pending", "collect"})
          => result.savedCount = savedCountBefore

\* C18, witness: the prober has requested a candidate after a stream session
\* that returned with a saved file.
C18_Witness ==
    /\ runPc = "probe"
    /\ opts.streamMode
    /\ sessPc = "returned"
    /\ sessResult.savedCount >= 1
    /\ probes >= 1

\* C18 as stated: the prober runs only after a capture session that has
\* returned with nothing saved.
C18_ProberOnlyAfterEmptySession ==
    runPc = "probe" => (sessPc = "returned" /\ sessResult.savedCount = 0)

\* The attempt for the control in hand has concluded after a click.
AttemptConcluded == click.clicked /\ click.pc \in {"next", "returned", "ended"}

C20_PopupsClosedWithAttempt ==
    \A p \in 1..MaxPopups :
        pages[p].state \in {"opening", "tracked"}
            => (click.pc = "clicked" /\ click.control = pages[p].by)

\* C21 as stated: the prober saves at most one artifact, and once it has
\* saved one it attempts no further candidate.
C21_ProberStopsAtFirstSave ==
    runPc = "probe" =>
        /\ probe.result.savedCount <= 1
        /\ (probe.result.savedCount = 1 /\ probe.pc = "idle") => ~ENABLED ProbeGet

\* ------------------------------------------------------- the byte resolver
\* fetchDownloadWithRetry's default attempts.
FetchAttempts == 4

\* What a fetch of one URL can meet: a response with a status class and a
\* content type that is JSON or not, or a request that throws.
FetchResponses == [status : {"2xx", "3xx", "4xx"}, json : BOOLEAN]

FetchError == [status |-> "error", json |-> FALSE]

\* A wait of 350 ms whatever the attempt.
backoffFlat(attempt) == 350

\* sleep(350 * attempt)
backoffDelay(attempt) == 350 * attempt

\* curl --fail exits 0 unless the transfer failed or the status is 400 or more.
curlSucceeds(r) == r # FetchError /\ r.status # "4xx"

\* response.ok() && !isJsonContentType(contentType)
requestAccepts(r) == r # FetchError /\ r.status = "2xx" /\ ~r.json

InitFetch ==
    /\ InitWith(RunOption("file", FALSE, <<>>, MaxCap, FALSE), <<>>)
    /\ merged = NoMerge
    /\ timing = NoTiming
    /\ click = NoClick
    /\ pages = NoPages
    /\ classified = NoClassified
    /\ context = NoContext
    /\ flowRun = NoFlowRun
    /\ shared = NoShared
    /\ \E preferCurl \in BOOLEAN :
          fetching = [NoFetch EXCEPT !.preferCurl = preferCurl,
                                     !.pc = IF preferCurl THEN "curl" ELSE "request",
                                     !.attempt = IF preferCurl THEN 0 ELSE 1]

\* The variables a byte fetch does not touch.
fetchUnchanged ==
    <<opts, script, imageRun, disk, clock, arrived, runPc, result, savedCountBefore,
      sessPc, sess, sessResult, sessionVars, probes, probe, merged, timing, click, pages, classified, context, flowRun, shared>>

\* fetchDownloadWithCurl, tried first when preferCurl: what curl fetched is
\* returned as it is; a failure falls back to the request loop.
CurlFetch ==
    /\ fetching.pc = "curl"
    /\ \E r \in FetchResponses \cup {FetchError} :
          fetching' = IF curlSucceeds(r)
                      THEN [fetching EXCEPT !.pc = "returned", !.via = "curl", !.got = r]
                      ELSE [fetching EXCEPT !.pc = "request", !.attempt = 1]
    /\ UNCHANGED fetchUnchanged

\* One pass of the loop: pageInstance.request.get(url), then either the
\* return of an accepted response whose body could be read, or a warning.
RequestGet ==
    /\ fetching.pc = "request"
    /\ \E r \in FetchResponses \cup {FetchError}, bodyRead \in BOOLEAN :
          fetching' = IF requestAccepts(r) /\ bodyRead
                      THEN [fetching EXCEPT !.pc = "returned", !.via = "request", !.got = r,
                                            !.requests = @ + 1]
                      ELSE [fetching EXCEPT
                               !.pc = IF fetching.attempt < FetchAttempts THEN "sleep"
                                      ELSE "thrown",
                               !.rejected = Append(@, IF requestAccepts(r) THEN FetchError ELSE r),
                               !.requests = @ + 1]
    /\ UNCHANGED fetchUnchanged

\* if (attempt < attempts) await sleep(350 * attempt), then the next pass.
BackoffSleep ==
    /\ fetching.pc = "sleep"
    /\ fetching' = [fetching EXCEPT !.waits = Append(@, backoffDelay(fetching.attempt)),
                                    !.attempt = @ + 1,
                                    !.pc = "request"]
    /\ UNCHANGED fetchUnchanged

NextFetch ==
    \/ CurlFetch
    \/ RequestGet
    \/ BackoffSleep

SpecFetch == InitFetch /\ [][NextFetch]_vars

\* C22: the request loop makes at most FetchAttempts requests; the waits
\* between consecutive requests are positive and strictly increasing; the
\* number of waits is the number of requests made less one once the fetch has
\* ended, so nothing is waited after the last request; and the fetch throws
\* exactly when FetchAttempts requests were made and every one was rejected.
C22_BoundedBackoffFetch ==
    /\ fetching.requests <= FetchAttempts
    /\ \A i \in 1..Len(fetching.waits) : fetching.waits[i] > 0
    /\ \A i \in 1..(Len(fetching.waits) - 1) : fetching.waits[i] < fetching.waits[i + 1]
    /\ fetching.pc = "request" => Len(fetching.waits) = fetching.requests
    /\ (fetching.pc \in {"sleep", "thrown"} \/ fetching.via = "request")
          => Len(fetching.waits) = fetching.requests - 1
    /\ fetching.pc = "thrown"
          <=> (fetching.requests = FetchAttempts /\ Len(fetching.rejected) = FetchAttempts)

\* A fetch that threw after four rejected requests and three growing waits.
C22_Witness ==
    /\ fetching.pc = "thrown"
    /\ fetching.requests = 4
    /\ fetching.waits = <<350, 700, 1050>>

\* C23 as stated: a response returned by either strategy has a success
\* status and a content type that is not JSON.
C23_AcceptedOnlySuccessNonJson ==
    fetching.pc = "returned" => (fetching.got.status = "2xx" /\ ~fetching.got.json)

\* The byte fetch of the response in hand ends without bytes: the response
\* is neither written nor ignored as an uploaded reference.
FetchExhausted ==
    /\ cur.pc = "fetch"
    /\ cur'.pc = "idle"
    /\ ~(/\ Len(streamEvents') > Len(streamEvents)
         /\ streamEvents'[Len(streamEvents')].type = "file_ignored")

BothFrameFlags(e) == e.isStreamPart /\ e.isFinalStreamFrame

\* C25 as stated: no stream event, no savedFiles entry of the session and no
\* savedFiles entry of the run's result, the reducer's single entry included,
\* has isStreamPart and isFinalStreamFrame both true.
C25_FrameFlagsExclusive ==
    /\ \A i \in 1..Len(streamEvents) : ~BothFrameFlags(streamEvents[i])
    /\ \A i \in 1..Len(savedFiles) : ~BothFrameFlags(savedFiles[i])
    /\ \A i \in 1..Len(result.savedFiles) : ~BothFrameFlags(result.savedFiles[i])
    /\ \A i \in 1..Len(result.streamEvents) : ~BothFrameFlags(result.streamEvents[i])

\* ------------------------------------------------- the frame classifier alone
\* The segments of the remote file names classified.
Segments == {"x", "part1", "part2", "PART1", "png", ""}

\* Remote file names of at most MaxSegments segments; <<>> is an absent,
\* empty or blank name, which the one empty segment would spell again.
RemoteNames == UNION {[1..n -> Segments] : n \in 0..MaxSegments} \ {<<"">>}

InitFrame ==
    /\ InitWith(RunOption("image", FALSE, <<>>, MaxCap, FALSE), <<>>)
    /\ merged = NoMerge
    /\ timing = NoTiming
    /\ click = NoClick
    /\ pages = NoPages
    /\ fetching = NoFetch
    /\ context = NoContext
    /\ flowRun = NoFlowRun
    /\ shared = NoShared
    /\ \E name \in RemoteNames : classified = [NoClassified EXCEPT !.name = name]

\* parseImageStreamFrameInfo(file_name)
ClassifyFrame ==
    /\ ~classified.done
    /\ classified' = [classified EXCEPT !.info = parseImageStreamFrameInfo(classified.name),
                                        !.done = TRUE]
    /\ UNCHANGED <<opts, script, imageRun, disk, clock, arrived, runPc, result, savedCountBefore,
                   sessPc, sess, sessResult, sessionVars, probes, probe, merged, timing, click,
                   pages, fetching, context, flowRun, shared>>

NextFrame == ClassifyFrame

SpecFrame == InitFrame /\ [][NextFrame]_vars

\* The segments of a name that read part<N>, follow a dot and are followed
\* by nothing or by one non-empty last segment.
PartSegments(name) ==
    {i \in 1..Len(name) :
        /\ i > 1
        /\ name[i] \in {"part1", "part2", "PART1"}
        /\ \/ i = Len(name)
           \/ (i + 1 = Len(name) /\ name[i + 1] # "")}

\* The number a part<N> segment carries.
PartNumber(seg) == IF seg = "part2" THEN 2 ELSE 1

HeadInScope ==
    /\ queue # <<>>
    /\ Head(queue).resp.url.host = ChatHost
    /\ Head(queue).resp.url.path \in {"estuary", "download"}

\* One event is appended to the log in this step, of one of the given types.
Emits(types) ==
    /\ Len(streamEvents') = Len(streamEvents) + 1
    /\ streamEvents'[Len(streamEvents')].type \in types

\* The byte fetch of the response in hand ends, and not by a failure.
FetchSucceeded ==
    /\ cur.pc = "fetch"
    /\ cur'.pc # "fetch"
    /\ ~Emits({"save_failed"})

\* C27 as stated: in a media session every fetched delivery goes on to be
\* saved, whatever was delivered before.
C27_EveryFetchedDeliverySaved ==
    [][(IsImageRun /\ FetchSucceeded) => cur'.pc = "write"]_vars

\* C27: in a media session every in-scope response taken from the queue is
\* handled, whatever ids and URLs were seen before: it goes to its byte
\* fetch or gets its event; a fetched delivery goes on to be written unless
\* it is ignored as a copy of an uploaded reference; and every delivery
\* written is one more save, so that k such deliveries of one id are k saves.
C27_MediaSessionNoDedup ==
    [][IsImageRun =>
          /\ (HeadInScope /\ cur.pc = "idle" /\ queue' = Tail(queue))
                => (cur'.pc = "fetch" \/ Emits({"file_ignored", "metadata_missing_download_url",
                                                "metadata_missing_item"}))
          /\ FetchSucceeded
                => \/ cur'.pc = "write"
                   \/ /\ Emits({"file_ignored"})
                      /\ streamEvents'[Len(streamEvents')].reason = "matches_upload_reference_name"
          /\ (cur.pc = "write" /\ cur'.pc = "idle" /\ ~Emits({"save_failed"}))
                => /\ Emits({"file_saved"})
                   /\ savedCount' = savedCount + 1
                   /\ Len(savedFiles') = Len(savedFiles) + 1]_vars

\* A media session that saved two deliveries of one response URL and id.
C27_Witness ==
    /\ IsImageRun
    /\ savedCount = 2
    /\ \E i \in 1..Len(streamEvents), j \in 1..Len(streamEvents) :
          /\ i < j
          /\ streamEvents[i].type = "file_saved"
          /\ streamEvents[j].type = "file_saved"
          /\ streamEvents[i].responseUrl = streamEvents[j].responseUrl
          /\ streamEvents[i].metadataId = streamEvents[j].metadataId

\* collectChatGptDownloads is called: a new session with a log of its own.
NewSession == sessPc' = "poll" /\ sessPc \in {"none", "returned", "rejected"}

\* The event that settles a frame resolved through a metadata response.
FrameOutcome(e) ==
    /\ e.source = "files_download_metadata"
    /\ \/ e.type \in {"file_saved", "save_failed"}
       \/ (e.type = "file_ignored" /\ e.reason = "matches_upload_reference_name")

\* The download_url_resolved events of metadata responses in a log that no
\* later event of the log has settled.
OpenFrames(events) ==
    {i \in 1..Len(events) :
        /\ events[i].type = "download_url_resolved"
        /\ events[i].source = "files_download_metadata"
        /\ \A j \in (i + 1)..Len(events) : ~FrameOutcome(events[j])}

\* C28: within a session the log only grows at its end, no entry of it is
\* changed or removed, and when the file_saved, file_ignored or save_failed
\* event of a frame resolved through a metadata response is appended, the
\* download_url_resolved event of that response is already in the log, with
\* no outcome after it.
C28_LogAppendOnlyInOrder ==
    [][~NewSession =>
          /\ Len(streamEvents') >= Len(streamEvents)
          /\ SubSeq(streamEvents', 1, Len(streamEvents)) = streamEvents
          /\ (Len(streamEvents') > Len(streamEvents)
               /\ FrameOutcome(streamEvents'[Len(streamEvents')]))
                => \E i \in OpenFrames(streamEvents) :
                      /\ streamEvents[i].responseUrl
                            = streamEvents'[Len(streamEvents')].responseUrl
                      /\ cur.pc \in {"fetch", "write"}]_vars

\* A log in which two frames were resolved and settled in turn.
C28_Witness ==
    \E i \in 1..Len(streamEvents) :
        /\ i + 3 <= Len(streamEvents)
        /\ streamEvents[i].type = "download_url_resolved"
        /\ streamEvents[i + 1].type = "file_saved"
        /\ streamEvents[i + 2].type = "download_url_resolved"
        /\ FrameOutcome(streamEvents[i + 3])

\* ------------------------------------------------------- the context record
\* slice(-200): the rolling window of the record's streamEvents.
StreamWindow == 200

LastN(seq, n) == IF Len(seq) <= n THEN seq ELSE SubSeq(seq, Len(seq) - n + 1, Len(seq))

Terminal == {"completed", "error"}

\* The stream events of a run: a frame's URL resolved, a frame's file saved.
StreamEventTypes == {"download_url_resolved", "file_saved"}

\* important: streamEvent.type is file_saved or save_failed.
IsImportant(type) == type \in {"file_saved", "save_failed"}

\* The state after the record was created and "started" was noted: status
\* running on file, the heartbeat interval set, the flow under way.
InitContext ==
    /\ InitWith(RunOption("image", FALSE, <<>>, MaxCap, FALSE), <<>>)
    /\ merged = NoMerge
    /\ timing = NoTiming
    /\ click = NoClick
    /\ pages = NoPages
    /\ fetching = NoFetch
    /\ classified = NoClassified
    /\ flowRun = NoFlowRun
    /\ shared = NoShared
    /\ context = [NoContext EXCEPT !.flow = "running", !.heartbeat = TRUE, !.recent = TRUE,
                                   !.contextRecord.status = "running",
                                   !.file.status = "running"]

\* The variables the context record does not touch.
contextUnchanged ==
    <<opts, script, imageRun, disk, clock, arrived, runPc, result, savedCountBefore,
      sessPc, sess, sessResult, sessionVars, probes, probe, merged, timing, click, pages,
      fetching, classified, flowRun, shared>>

\* persistRunContext(patch) up to its await: next is the record in memory
\* with the patch applied, and its write is under way.
persistRunContext(c, next) ==
    [c EXCEPT !.writes = @ \cup {[id |-> c.issued + 1, rec |-> next, landed |-> FALSE]},
              !.issued = @ + 1]

\* noteActivity up to its await: an activity that is not important is
\* dropped within 1200 ms of the last write; otherwise the patch is computed
\* from the record in memory and persisted.
noteActivity(c, important, events) ==
    IF ~important /\ c.recent THEN c
    ELSE persistRunContext(
             [c EXCEPT !.recent = TRUE],
             [status |-> IF c.contextRecord.status \in Terminal THEN c.contextRecord.status
                         ELSE "running",
              streamEvents |-> LastN(c.contextRecord.streamEvents \o events, StreamWindow)])

\* The collector emits a stream event: onStreamEvent, emitActivity, noteActivity.
StreamEventEmitted ==
    /\ context.flow = "running"
    /\ Len(context.emitted) < MaxEmitted
    /\ context.issued < MaxWrites
    /\ \E type \in StreamEventTypes :
          LET e == [seq |-> Len(context.emitted) + 1, type |-> type]
          IN  context' = noteActivity([context EXCEPT !.emitted = Append(@, e)],
                                      IsImportant(type), <<e>>)
    /\ UNCHANGED contextUnchanged

\* The 3 s interval fires more than 1200 ms after the last write.
HeartbeatFires ==
    /\ context.heartbeat
    /\ ~context.recent
    /\ context.issued < MaxWrites
    /\ context' = noteActivity(context, FALSE, <<>>)
    /\ UNCHANGED contextUnchanged

\* 1200 ms pass without an activity write.
ThrottleExpires ==
    /\ context.flow # "off"
    /\ context.recent
    /\ context' = [context EXCEPT !.recent = FALSE]
    /\ UNCHANGED contextUnchanged

\* flowPromise settles: stopHeartbeat, then the final persistRunContext.
FlowSettles ==
    /\ context.flow = "running"
    /\ \E outcome \in Terminal :
          context' = persistRunContext(
                         [context EXCEPT !.flow = "ended", !.heartbeat = FALSE],
                         [context.contextRecord EXCEPT !.status = outcome])
    /\ UNCHANGED contextUnchanged

\* writeFile of one persistContextRun completes; concurrent writes of the
\* one file complete in any order.
WriteLands ==
    /\ \E w \in context.writes :
          /\ ~w.landed
          /\ context' = [context EXCEPT !.file = w.rec,
                                        !.writes = (@ \ {w}) \cup {[w EXCEPT !.landed = TRUE]}]
    /\ UNCHANGED contextUnchanged

\* contextRecord = persisted.payload, after the write of that call.
RecordAssigned ==
    /\ \E w \in context.writes :
          /\ w.landed
          /\ context' = [context EXCEPT !.contextRecord = w.rec, !.writes = @ \ {w}]
    /\ UNCHANGED contextUnchanged

NextContext ==
    \/ StreamEventEmitted
    \/ HeartbeatFires
    \/ ThrottleExpires
    \/ FlowSettles
    \/ WriteLands
    \/ RecordAssigned

SpecContext == InitContext /\ [][NextContext]_vars

\* C29 as stated: once no write is in flight, the streamEvents of the record
\* on file are the stream events the collector emitted, in emission order,
\* within the rolling window.
C29_EveryStreamEventPersisted ==
    (context.flow # "off" /\ context.writes = {})
        => context.file.streamEvents = LastN(context.emitted, StreamWindow)

\* C30 as stated: a record on file that has status completed or error keeps
\* a status of the two.
C30_TerminalStatusKept ==
    [][context.file.status \in Terminal => context'.file.status \in Terminal]_vars

\* ------------------------------------------------------- the retry of a flow
\* A retry whenever the first attempt saved nothing.
shouldRetryOnEmpty(count, errorSeen) == count = 0

\* (result.savedCount ?? 0) === 0 && assistantErrorMessageSeen
shouldRetry(count, errorSeen) == count = 0 /\ errorSeen

InitRetry ==
    /\ InitWith(RunOption("image", FALSE, <<>>, MaxCap, FALSE), <<>>)
    /\ merged = NoMerge
    /\ timing = NoTiming
    /\ click = NoClick
    /\ pages = NoPages
    /\ fetching = NoFetch
    /\ classified = NoClassified
    /\ context = NoContext
    /\ shared = NoShared
    /\ \E mode \in {"image", "file"} :
          flowRun = [NoFlowRun EXCEPT !.pc = "attempt1", !.generationMode = mode]

\* The variables the attempts of a flow do not touch here.
flowUnchanged ==
    <<opts, script, imageRun, disk, clock, arrived, runPc, result, savedCountBefore,
      sessPc, sess, sessResult, sessionVars, probes, probe, merged, timing, click, pages,
      fetching, classified, context, shared>>

\* submitPromptAndCollect up to the click on the send button; the poll of
\* the assistant turn runs from then on.
SubmitPrompt ==
    /\ flowRun.pc \in {"attempt1", "attempt2"}
    /\ flowRun' = [flowRun EXCEPT !.submissions = @ + 1,
                                  !.pc = IF flowRun.pc = "attempt1" THEN "collect1" ELSE "collect2"]
    /\ UNCHANGED flowUnchanged

\* mergeResult of a collector's or the prober's result with one save.
SaveMerged ==
    /\ flowRun.pc \in {"collect1", "collect2"}
    /\ flowRun.savedCount < MaxFlowSaves
    /\ flowRun' = [flowRun EXCEPT !.savedCount = @ + 1,
                                  !.activities = Append(@, IF flowRun.generationMode = "file"
                                                           THEN "file_saved" ELSE "image_saved")]
    /\ UNCHANGED flowUnchanged

\* probeAssistantTurn finds a new assistant turn that reports an error. It
\* runs on the poll interval during an attempt, while the second prompt is
\* typed, and while the reducer is awaited.
AssistantErrorSeen ==
    /\ \/ flowRun.pc \in {"collect1", "collect2", "attempt2"}
       \/ (flowRun.pc = "finish" /\ flowRun.generationMode = "image" /\ flowRun.savedCount > 1)
    /\ ~flowRun.errorSeen
    /\ flowRun' = [flowRun EXCEPT !.errorSeen = TRUE,
                                  !.activities = Append(@, "assistant_error")]
    /\ UNCHANGED flowUnchanged

\* submitPromptAndCollect returns. After the first attempt the retry is
\* decided at once: flow_retry, the error seen is forgotten, second attempt.
AttemptReturns ==
    /\ flowRun.pc \in {"collect1", "collect2"}
    /\ flowRun' =
          IF flowRun.pc = "collect1"
          THEN [flowRun EXCEPT
                   !.first = [ended |-> TRUE, savedCount |-> flowRun.savedCount,
                              errorSeen |-> flowRun.errorSeen],
                   !.errorSeen = IF shouldRetry(flowRun.savedCount, flowRun.errorSeen)
                                 THEN FALSE ELSE @,
                   !.activities = IF shouldRetry(flowRun.savedCount, flowRun.errorSeen)
                                  THEN Append(@, "flow_retry") ELSE @,
                   !.pc = IF shouldRetry(flowRun.savedCount, flowRun.errorSeen)
                          THEN "attempt2" ELSE "finish"]
          ELSE [flowRun EXCEPT !.pc = "finish"]
    /\ UNCHANGED flowUnchanged

\* An attempt throws: the catch of the flow returns status error.
AttemptThrows ==
    /\ flowRun.pc \in {"collect1", "collect2"}
    /\ flowRun' = [flowRun EXCEPT !.pc = "caught", !.status = "error",
                                  !.activities = Append(@, "flow_error")]
    /\ UNCHANGED flowUnchanged

\* The end of the flow: status error when nothing was saved and an
\* assistant error is on record, status completed otherwise.
FlowReturns ==
    /\ flowRun.pc = "finish"
    /\ flowRun' = [flowRun EXCEPT
                      !.pc = "returned",
                      !.activities = Append(@, IF flowRun.savedCount = 0 /\ flowRun.errorSeen
                                               THEN "flow_error" ELSE "flow_completed"),
                      !.status = IF flowRun.savedCount = 0 /\ flowRun.errorSeen
                                 THEN "error" ELSE "completed"]
    /\ UNCHANGED flowUnchanged

NextRetry ==
    \/ SubmitPrompt
    \/ SaveMerged
    \/ AssistantErrorSeen
    \/ AttemptReturns
    \/ AttemptThrows
    \/ FlowReturns

SpecRetry == InitRetry /\ [][NextRetry]_vars

SharedNames == {NmFinal, NmDoc}

\* The path saveBufferToDisk writes to for session n, whose run id is its
\* number: `${filePrefix}-${runId}-${index}` when names are randomized, the
\* sanitized remote name otherwise.
SharedSavePath(n, se, fileName) ==
    LET prefix == IF se.mode = "file" THEN "file" ELSE "image"
        baseName == IF se.randomize
                    THEN <<prefix \o "-r" \o ToString(n) \o "-" \o ToString(se.nextFileIndex)>>
                    ELSE fileName
    IN  applyExtension(sanitizeFileName(baseName), FetchedExtension)

InitShared ==
    /\ InitWith(RunOption("file", FALSE, <<>>, MaxCap, FALSE), <<>>)
    /\ merged = NoMerge
    /\ timing = NoTiming
    /\ click = NoClick
    /\ pages = NoPages
    /\ fetching = NoFetch
    /\ classified = NoClassified
    /\ context = NoContext
    /\ flowRun = NoFlowRun
    /\ \E mode \in [{1, 2} -> {"image", "file"}], randomize \in [{1, 2} -> BOOLEAN] :
          shared = [NoShared EXCEPT
                       !.sessions = [n \in {1, 2} |->
                                        [@[n] EXCEPT !.pc = "listening", !.mode = mode[n],
                                                     !.randomize = randomize[n]]]]

\* The variables the shared directory does not touch.
sharedUnchanged ==
    <<opts, script, imageRun, disk, clock, arrived, runPc, result, savedCountBefore,
      sessPc, sess, sessResult, sessionVars, probes, probe, merged, timing, click, pages,
      fetching, classified, context, flowRun>>

\* saveBufferToDisk in session n: writeFile to the path of the name.
SharedSave ==
    /\ \E n \in {1, 2}, name \in SharedNames :
          LET se == shared.sessions[n]
              path == SharedSavePath(n, se, name)
          IN  /\ se.pc = "listening"
              /\ Len(se.saved) < MaxSharedSaves
              /\ shared' = [shared EXCEPT
                                !.files = WriteFile(@, path, [by |-> n, content |-> shared.written + 1]),
                                !.written = @ + 1,
                                !.sessions[n].saved = Append(@, path),
                                !.sessions[n].nextFileIndex = IF se.randomize THEN @ + 1 ELSE @]
    /\ UNCHANGED sharedUnchanged

\* The tail of session n: its last save is copied to latest.<ext>.
SharedCopyLatest ==
    /\ \E n \in {1, 2} :
          LET se == shared.sessions[n]
          IN  /\ se.pc = "listening"
              /\ shared' = [shared EXCEPT
                                !.files = IF se.saved # <<>> /\ se.saved[Len(se.saved)] # LatestPath
                                             /\ se.saved[Len(se.saved)] \in DOMAIN shared.files
                                          THEN WriteFile(@, LatestPath,
                                                         [by |-> n,
                                                          content |-> shared.files[se.saved[Len(se.saved)]].content])
                                          ELSE @,
                                !.sessions[n].pc = "returned"]
    /\ UNCHANGED sharedUnchanged

\* retainLatestImageOnly after a media session with several saves: every
\* candidate path but the retained one is unlinked.
SharedReduce ==
    /\ \E n \in {1, 2} :
          LET se == shared.sessions[n]
              kept == se.saved[Len(se.saved)]
          IN  /\ se.pc = "returned"
              /\ se.mode = "image"
              /\ Len(se.saved) > 1
              /\ shared' = [shared EXCEPT
                                !.files = Unlink(@, {se.saved[i] : i \in 1..Len(se.saved)} \ {kept}),
                                !.sessions[n].pc = "reduced"]
    /\ UNCHANGED sharedUnchanged

NextShared ==
    \/ SharedSave
    \/ SharedCopyLatest
    \/ SharedReduce

SpecShared == InitShared /\ [][NextShared]_vars

\* C32 as stated: a file another session wrote is neither removed nor
\* replaced: a file is removed only by a step of the session that wrote it,
\* and a file whose content changes was written by the same session before.
C32_SessionsOnlyAddFiles ==
    [][\A p \in DOMAIN shared.files :
          LET owner == shared.files[p].by
          IN  /\ p \notin DOMAIN shared'.files
                    => shared'.sessions[owner].pc # shared.sessions[owner].pc
              /\ (p \in DOMAIN shared'.files /\ shared'.files[p] # shared.files[p])
                    => shared'.files[p].by = owner]_vars

\* C33 as stated: the session never rejects, and the result it returns holds
\* the saves it made: its savedCount and its savedFiles.
C33_SessionAlwaysReturns ==
    /\ sessPc # "rejected"
    /\ sessPc = "returned"
          => (sessResult.savedCount >= 0 /\ Len(sessResult.savedFiles) <= Len(savedFiles)
              /\ \A i \in 1..Len(sessResult.savedFiles) : sessResult.savedFiles[i] = savedFiles[i])

\* The consumer takes from the queue a response that is out of scope.
OutOfScopeTaken ==
    /\ cur.pc = "idle"
    /\ queue # <<>>
    /\ ~HeadInScope
    /\ queue' = Tail(queue)

\* C34: handling a response whose host or path is out of scope emits no
\* event, leaves savedCount, savedFiles, the metadata ids, the dedup set and
\* the files on disk as they were, starts no fetch, and leaves both timers,
\* the finished flag and the listener as they were.
C34_OutOfScopeLeavesSession ==
    [][OutOfScopeTaken =>
          /\ cur' = IdleCur
          /\ UNCHANGED <<streamEvents, savedCount, savedFiles, metadataIds, seen, disk,
                         idleTimer, timeoutTimer, finished, listening,
                         sawImageStreamPartFrame, sawImageFinalFrame>>]_vars

\* A session with a save and its idle timer armed whose consumer is about
\* to take a response of another host from the queue.
C34_Witness ==
    /\ savedCount > 0
    /\ idleTimer # "none"
    /\ cur.pc = "idle"
    /\ queue # <<>>
    /\ Head(queue).resp.url.host # ChatHost
    /\ seen # {}

\* The run reduces its result in this step.
ReduceStep ==
    /\ runPc = "collected"
    /\ runPc' = "done"
    /\ opts.generationMode = "image"
    /\ Len(result.savedFiles) > 1

\* C35: the reducer applied to its own result, with the files it deleted
\* already gone, selects the same file, deletes no file that is on disk, and
\* returns a result equal to the one it was given.
C35_ReducerIdempotent ==
    [][ReduceStep =>
          /\ SelectedCandidate(result', disk') # <<>>
          /\ SelectedCandidate(result', disk')[1].filePath = result'.savedFiles[1].filePath
          /\ PathsToDelete(result', disk') \cap DOMAIN disk' = {}
          /\ Unlink(disk', PathsToDelete(result', disk')) = disk'
          /\ retainLatestImageOnly(result', disk') = result']_vars

\* A reduced media run: one file in the result, and a file the session saved
\* is no longer on disk.
C35_Witness ==
    /\ runPc = "done"
    /\ opts.generationMode = "image"
    /\ Len(result.savedFiles) = 1
    /\ \E i \in 1..Len(result.streamEvents) :
           /\ result.streamEvents[i].type = "file_saved"
           /\ result.streamEvents[i].outputPath \notin DOMAIN disk

\* savedCount of a save result is the number of its savedFiles entries.
CountsItsFiles(r) == r.savedCount = Len(r.savedFiles)

\* C36: the result a session returns, the result of the prober, the run's
\* result (every merge of the two, and the reducer's output) and the
\* session's own counters all have savedCount equal to the number of
\* savedFiles entries.
C36_CountMatchesFiles ==
    /\ CountsItsFiles(sessResult)
    /\ CountsItsFiles(probe.result)
    /\ CountsItsFiles(result)
    /\ CountsItsFiles(mergeSaveResults(result, probe.result))
    /\ CountsItsFiles(mergeSaveResults(result, sessResult))
    /\ savedCount = Len(savedFiles)
    /\ (opts.generationMode = "image" /\ Len(result.savedFiles) > 1)
          => CountsItsFiles(retainLatestImageOnly(result, disk))

\* A finished run whose result holds more files than its last session
\* returned, the session having returned some: a merge of two results that
\* both hold files.
C36_Witness ==
    /\ runPc = "done"
    /\ sessPc = "returned"
    /\ sessResult.savedCount >= 1
    /\ result.savedCount > sessResult.savedCount

\* C37 as stated: the savedCount a generic-file session returns never
\* exceeds its cap.
C37_ReturnedCountWithinCap ==
    (~IsImageRun /\ sessPc = "returned") => sessResult.savedCount <= sess.maxFiles

\* The positions of the collector_complete events of a log.
CompleteAt(events) == {i \in 1..Len(events) : events[i].type = "collector_complete"}

\* C38 as stated: the log of a session that has returned holds exactly one
\* collector_complete event, as its last event; once the session has
\* returned no event is emitted and no timer is armed.
C38_CollectorCompleteLast ==
    [][sessPc' = "returned" =>
          /\ CompleteAt(streamEvents') = {Len(streamEvents')}
          /\ sessPc = "returned" =>
                 /\ streamEvents' = streamEvents
                 /\ idleTimer' \in {idleTimer, "none"}
                 /\ timeoutTimer' => timeoutTimer]_vars

FileResponseTaken ==
    /\ ~IsImageRun
    /\ cur.pc = "idle"
    /\ HeadInScope
    /\ queue' = Tail(queue)

\* C40: in a generic-file session the dedup key of a response is in the
\* dedup set as soon as the response is taken from the queue, so while it is
\* being handled and whatever its outcome; a response whose key is already
\* there is dropped: no fetch starts, no event is emitted and nothing is
\* counted. Each key is therefore handled at most once.
C40_KeyHandledAtMostOnce ==
    [][/\ FileResponseTaken =>
             /\ DedupeKey(Head(queue).resp.url) \in seen'
             /\ DedupeKey(Head(queue).resp.url) \in seen =>
                    /\ cur' = IdleCur
                    /\ UNCHANGED <<streamEvents, savedCount, savedFiles, seen, disk, idleTimer>>
       /\ (~IsImageRun /\ cur'.pc # "idle") => DedupeKey(cur'.resp.url) \in seen'
       /\ (~IsImageRun /\ sessPc' = sessPc) => seen \subseteq seen']_vars

\* One file id was delivered three times to a generic-file session; the
\* first delivery ended in save_failed, the two later ones were dropped, and
\* the log holds that one outcome and no save.
C40_Witness ==
    /\ ~IsImageRun
    /\ script = Redelivery
    /\ arrived = Len(Redelivery)
    /\ queue = <<>>
    /\ cur.pc = "idle"
    /\ seen = {DedupeKey(DownloadUrl("a"))}
    /\ savedCount = 0
    /\ Cardinality(EventsOfId(streamEvents, "a", {"save_failed"})) = 1
    /\ Cardinality(EventsOfId(streamEvents, "a", Outcomes)) = 1

====
